---- MODULE Spec2Model ----
(***************************************************************************)
(* Bendine (yebeniyam/annuti) web client: the React pages as state         *)
(* machines.  Each page is a component whose useState cells are the        *)
(* variables and whose event handlers are the actions; what a page renders *)
(* is an operator over those variables.                                    *)
(*                                                                         *)
(*   Spec           frontend/src/pages/POS.tsx            (point of sale)  *)
(*   SpecInventory  pages/Inventory (src/unnamed/part_004)                 *)
(*   SpecMenu       pages/MenuManagement.tsx + features/menu/menuSlice     *)
(*   SpecReports    frontend/src/pages/Reports.tsx                         *)
(*   SpecStore      the users, menu and auth slices, thunks dispatched on   *)
(*                  the store (features/users, features/auth, menuSlice)   *)
(*   SpecAuth       App.tsx, ProtectedRoute (src/unnamed/part_002), the    *)
(*                  login page (src/unnamed/part_003) and the auth slice   *)
(*   SpecSession    the auth slice with the logout endpoint                *)
(*                  (src/unnamed/part_007, second half)                    *)
(*   SpecMobileAuth   mobile/src/context/AuthContext.js (waiter app)       *)
(*   SpecMobileOrder  mobile/src/screens/OrderScreen.js (waiter app)       *)
(*                                                                         *)
(* Units.  Menu prices of the POS are whole Birr, as in the source.  The   *)
(* amounts calculateTotals returns are held in santim (1/100 Birr), so     *)
(* that subtotal * 0.15 is an integer.  For the POS menu (all prices are   *)
(* multiples of 10) the IEEE double product subtotal * 0.15 is exactly     *)
(* 15 * subtotal / 100, so the integer value is the value the code         *)
(* computes.                                                               *)
(*                                                                         *)
(* null / undefined are modelled as the empty sequence and a present       *)
(* value x as <<x>>, so that both compare in TLC.                          *)
(***************************************************************************)
EXTENDS Integers, Sequences, FiniteSets, Bags, TLC

\* ------------------------------------------------------------------------
\* Bounds of the model
\* ------------------------------------------------------------------------

\* most order items held by the POS order at once
MaxItems == 2

\* last millisecond Date.now() returns
MaxClock == 2

\* largest stock level and minimum stock of an inventory item, in tenths of
\* the item's unit
MaxStock == 2

\* most menu items the menu store holds, and the server returns in one list
MaxMenuItems == 1

\* most menu requests awaiting their response at once
MaxInFlight == 2

\* most entries of a list the server returns to a thunk dispatched on the
\* store directly, and most entries such a thunk lets a store list grow to
MaxListLen == 2

\* most thunks dispatched on the store directly
MaxDispatches == 2

\* most events of a visitor of the application: navigations, form
\* submissions and logouts
MaxVisits == 2

\* most login() calls of the waiter app awaiting a response at once
MaxLogins == 2

\* largest quantity of a line of the waiter app's order
MaxQty == 2

\* ------------------------------------------------------------------------
\* State
\* ------------------------------------------------------------------------

\* POS page (frontend/src/pages/POS.tsx)
VARIABLES
  activeTab,          \* 0 Floor Plan, 1 Current Order, 2 Kitchen Display
  selectedTable,      \* null or the TableInfo selected on the floor plan
  openPaymentDialog,  \* the payment dialog is shown
  currentOrder,       \* null or the Order of the selected table
  orderItems,         \* the OrderItem list of the order being entered
  newOrderItem,       \* the Add Item form: menu_item_id, quantity, notes
  amountReceived,     \* text of the dialog's uncontrolled Amount Received field
  now                 \* the millisecond Date.now() last returned

posVars == <<activeTab, selectedTable, openPaymentDialog, currentOrder,
             orderItems, newOrderItem, amountReceived, now>>

\* Inventory page (src/unnamed/part_004)
VARIABLES
  invActiveTab,    \* 0 Inventory Items, 1 Transactions, 2 Counts, 3 Low Stock
  inventoryItems,  \* the InventoryItem list (a useState cell with no setter)
  invOpenDialog,   \* the add / edit dialog is shown
  invDialogMode,   \* "add" or "edit"
  invCurrentItem,  \* null or the item being edited
  invForm          \* the dialog's form fields, as texts

invVars == <<invActiveTab, inventoryItems, invOpenDialog, invDialogMode,
             invCurrentItem, invForm>>

\* Menu store (features/menu/menuSlice, src/unnamed/part_006) and the Menu
\* Management page (frontend/src/pages/MenuManagement.tsx)
VARIABLES
  localStorageToken,  \* null or localStorage's 'token'
  menu,               \* state.menu: categories, items, loading, error
  menuPending,        \* bag of the menu requests awaiting their response
  mmMounted,          \* the page is mounted
  mmActiveTab,        \* 0 Menu Items, 1 Categories, 2 Recipes
  mmOpenDialog,       \* the add / edit dialog is shown
  mmDialogMode,       \* "add" or "edit"
  mmCurrentItem,      \* null or the item being edited
  mmForm              \* the dialog's form fields, as texts

menuVars == <<localStorageToken, menu, menuPending, mmMounted, mmActiveTab,
              mmOpenDialog, mmDialogMode, mmCurrentItem, mmForm>>

\* Reports page (frontend/src/pages/Reports.tsx)
VARIABLES
  repActiveTab,  \* 0 Sales, 1 Menu Performance, 2 Employees, 3 Inventory Variance
  dateRange      \* startDate and endDate of the report

repVars == <<repActiveTab, dateRange>>

\* Waiter app: the auth context (mobile/src/context/AuthContext.js) and the
\* order screen (mobile/src/screens/OrderScreen.js)
VARIABLES
  mAuth,             \* the reducer's state: user, token, isLoading, error, isAuthenticated
  mLogins,           \* bag of the login() calls awaiting a response
  mOrderItems,       \* the order screen's orderItems
  selectedCategory   \* the order screen's category filter

mobileAuthVars == <<mAuth, mLogins>>

mobileOrderVars == <<mOrderItems, selectedCategory>>

mobileVars == <<mobileAuthVars, mobileOrderVars>>

\* Users store (frontend/src/features/users/usersSlice.ts)
VARIABLES
  users,         \* state.users: users, loading, error
  usersPending,  \* bag of the users requests awaiting their response
  dispatched     \* number of thunks dispatched on the store directly

usersVars == <<users, usersPending, dispatched>>

\* Auth store (frontend/src/features/auth/authSlice.ts)
VARIABLES
  auth,         \* state.auth: user, token, isAuthenticated, loading, error
  authPending   \* bag of the auth requests awaiting their response

authVars == <<auth, authPending>>

\* Application shell: App (frontend/src/App.tsx), ProtectedRoute
\* (src/unnamed/part_002), login page (src/unnamed/part_003)
VARIABLES
  path,      \* location.pathname; "" while no component is mounted
  appDeps,   \* null or the dependencies of the last run of App's useEffect
  prDeps,    \* null or those of the last run of ProtectedRoute's useEffect
  visits     \* number of navigations and form submissions of the visitor

shellVars == <<path, appDeps, prDeps, visits>>

\* the Menu Management page's own cells
mmPageVars == <<mmMounted, mmActiveTab, mmOpenDialog, mmDialogMode,
                mmCurrentItem, mmForm>>

vars ==
  <<posVars, invVars, menuVars, repVars, mobileVars, usersVars, authVars,
    shellVars>>

\* what the handlers of one page leave alone: the other pages
notPosVars == <<invVars, menuVars, repVars, mobileVars, usersVars, authVars, shellVars>>

notInvVars == <<posVars, menuVars, repVars, mobileVars, usersVars, authVars, shellVars>>

notMenuVars == <<posVars, invVars, repVars, mobileVars, usersVars, authVars, shellVars>>

notRepVars == <<posVars, invVars, menuVars, mobileVars, usersVars, authVars, shellVars>>

notMobileAuthVars ==
  <<posVars, invVars, menuVars, repVars, mobileOrderVars, usersVars, authVars, shellVars>>

notMobileOrderVars ==
  <<posVars, invVars, menuVars, repVars, mobileAuthVars, usersVars, authVars, shellVars>>

\* what the users thunks leave alone
notUsersVars ==
  <<posVars, invVars, menuVars, repVars, mobileVars, authVars, shellVars>>

\* ------------------------------------------------------------------------
\* Generic helpers
\* ------------------------------------------------------------------------

NULL == <<>>

Some(x) == <<x>>

\* Array.prototype.filter is SelectSeq of Sequences: the elements satisfying
\* the test, in order.

\* Array.prototype.find by id: the first element with that id, or null
FindById(seq, id) ==
  LET hits == {i \in DOMAIN seq : seq[i].id = id}
  IN  IF hits = {} THEN NULL
      ELSE Some(seq[CHOOSE i \in hits : \A j \in hits : i <= j])

\* ------------------------------------------------------------------------
\* parseInt (ECMAScript): optional sign, then the longest prefix of decimal
\* digits; NaN when there is no digit.  Texts are sequences of characters.
\* ------------------------------------------------------------------------

DigitChars == <<"0", "1", "2", "3", "4", "5", "6", "7", "8", "9">>

IsDigit(c) == \E d \in DOMAIN DigitChars : DigitChars[d] = c

DigitValue(c) == (CHOOSE d \in DOMAIN DigitChars : DigitChars[d] = c) - 1

\* value of the longest digit prefix of s, read after acc
RECURSIVE DigitsValue(_, _)
DigitsValue(s, acc) ==
  IF s = <<>> \/ ~IsDigit(Head(s)) THEN acc
  ELSE DigitsValue(Tail(s), 10 * acc + DigitValue(Head(s)))

parseInt(text) ==
  LET neg    == text # <<>> /\ Head(text) = "-"
      signed == text # <<>> /\ Head(text) \in {"-", "+"}
      body   == IF signed THEN Tail(text) ELSE text
  IN  IF body = <<>> \/ ~IsDigit(Head(body))
      THEN [nan |-> TRUE, val |-> 0]
      ELSE [nan |-> FALSE,
            val |-> IF neg THEN 0 - DigitsValue(body, 0) ELSE DigitsValue(body, 0)]

\* `parseInt(v) || 1`: NaN and 0 are falsy
parseIntOr1(text) ==
  LET p == parseInt(text)
  IN  IF p.nan \/ p.val = 0 THEN 1 ELSE p.val

\* Number.prototype.toString of a non-negative whole number
RECURSIVE IntToText(_)
IntToText(n) ==
  IF n < 10 THEN <<DigitChars[n + 1]>>
  ELSE IntToText(n \div 10) \o <<DigitChars[(n % 10) + 1]>>

\* Number.prototype.toString of a non-negative number held in tenths:
\* 125 is "12.5", 50 is "5"
TenthsToText(n) ==
  IF n % 10 = 0 THEN IntToText(n \div 10)
  ELSE IntToText(n \div 10) \o <<".">> \o <<DigitChars[(n % 10) + 1]>>

\* Prices and costs of menu items are held in eighths of a Birr: every such
\* value is an exact IEEE double, so price - cost is exact and toFixed sees
\* the value itself.

AbsInt(x) == IF x < 0 THEN 0 - x ELSE x

\* two decimal digits of n in 0..99
TwoDigits(n) == <<DigitChars[(n \div 10) + 1], DigitChars[(n % 10) + 1]>>

\* Number.prototype.toFixed(2) of k eighths: the sign, then the integer n of
\* hundredths nearest to the magnitude (the larger n on a tie), as
\* "<units>.<two digits>"
toFixed2(k) ==
  LET n == (25 * AbsInt(k) + 1) \div 2
  IN  (IF k < 0 THEN <<"-">> ELSE <<>>)
      \o IntToText(n \div 100) \o <<".">> \o TwoDigits(n % 100)

\* Number.prototype.toString of k >= 0 eighths: "250", "0.125", "12.5"
EighthsToText(k) ==
  LET frac == (k % 8) * 125
      d1   == frac \div 100
      d2   == (frac \div 10) % 10
      d3   == frac % 10
      digits == IF d3 # 0 THEN <<d1, d2, d3>>
                ELSE IF d2 # 0 THEN <<d1, d2>>
                ELSE IF d1 # 0 THEN <<d1>> ELSE <<>>
  IN  IF digits = <<>> THEN IntToText(k \div 8)
      ELSE IntToText(k \div 8) \o <<".">>
           \o [i \in 1..Len(digits) |-> DigitChars[digits[i] + 1]]

\* length of the longest prefix of decimal digits of s
RECURSIVE DigitsLen(_)
DigitsLen(s) ==
  IF s = <<>> \/ ~IsDigit(Head(s)) THEN 0 ELSE 1 + DigitsLen(Tail(s))

\* The number a decimal text denotes, in hundredths: an optional sign, the
\* units and at most two decimals; what follows (a unit such as " kg") is
\* not read.  "-1.1 kg" is -110, "2.95 kg" is 295, "150.00" is 15000.
DecimalTextValue(text) ==
  LET neg    == text # <<>> /\ Head(text) = "-"
      signed == text # <<>> /\ Head(text) \in {"-", "+"}
      body   == IF signed THEN Tail(text) ELSE text
      n      == DigitsLen(body)
      rest   == SubSeq(body, n + 1, Len(body))
      frac   == IF rest # <<>> /\ Head(rest) = "." THEN Tail(rest) ELSE <<>>
      m      == DigitsLen(frac)
      cents  == IF m = 0 THEN 0
                ELSE IF m = 1 THEN 10 * DigitValue(frac[1])
                ELSE 10 * DigitValue(frac[1]) + DigitValue(frac[2])
      value  == 100 * DigitsValue(body, 0) + cents
  IN  IF neg THEN 0 - value ELSE value

\* ------------------------------------------------------------------------
\* POS page (frontend/src/pages/POS.tsx)
\* ------------------------------------------------------------------------

tables ==
  << [id |-> "1", name |-> "Table 1",    capacity |-> 4, status |-> "available", section_id |-> "A"],
     [id |-> "2", name |-> "Table 2",    capacity |-> 4, status |-> "occupied",  section_id |-> "A"],
     [id |-> "3", name |-> "Table 3",    capacity |-> 6, status |-> "available", section_id |-> "A"],
     [id |-> "4", name |-> "Table 4",    capacity |-> 2, status |-> "dirty",     section_id |-> "B"],
     [id |-> "5", name |-> "Table 5",    capacity |-> 2, status |-> "occupied",  section_id |-> "B"],
     [id |-> "6", name |-> "Bar Seat 1", capacity |-> 1, status |-> "available", section_id |-> "C"],
     [id |-> "7", name |-> "Bar Seat 2", capacity |-> 1, status |-> "available", section_id |-> "C"] >>

menuItems ==
  << [id |-> "1", name |-> "Beef Burger",    price |-> 250, category |-> "Burgers"],
     [id |-> "2", name |-> "Chicken Burger", price |-> 220, category |-> "Burgers"],
     [id |-> "3", name |-> "Coke 330ml",     price |-> 40,  category |-> "Drinks"],
     [id |-> "4", name |-> "Fanta 330ml",    price |-> 40,  category |-> "Drinks"],
     [id |-> "5", name |-> "French Fries",   price |-> 80,  category |-> "Sides"],
     [id |-> "6", name |-> "Onion Rings",    price |-> 90,  category |-> "Sides"] >>

\* The tables the user clicks and the menu items the user picks in the
\* explored runs: a sample of the lists above.
TableChoices == {tables[1], tables[2]}

MenuChoices == {"1", "3"}

\* Texts the user leaves in the Quantity field
QtyTexts == { <<>>, <<"0">>, <<"2">>, <<"-", "1">>, <<"1", ".", "5">> }

newOrderItemInitial == [menu_item_id |-> "", quantity |-> 1, notes |-> ""]

\* calculateTotals: amounts in santim
TaxRatePercent == 15

AddLine(sum, item) == sum + item.unit_price * item.quantity

\* orderItems.reduce(AddLine, sum): the left fold of AddLine over items
RECURSIVE ReduceLines(_, _)
ReduceLines(items, sum) ==
  IF items = <<>> THEN sum
  ELSE ReduceLines(Tail(items), AddLine(sum, Head(items)))

\* calculateTotals summing the unit prices without the quantities
RECURSIVE ReducePrices(_, _)
ReducePrices(items, sum) ==
  IF items = <<>> THEN sum
  ELSE ReducePrices(Tail(items), sum + Head(items).unit_price)

calculateTotals_noQuantity ==
  LET birr     == ReducePrices(orderItems, 0)
      subtotal == 100 * birr
      tax      == TaxRatePercent * birr
  IN  [subtotal |-> subtotal, tax |-> tax, total |-> subtotal + tax]

\* calculateTotals with the tax left out of the total
calculateTotals_totalWithoutTax ==
  LET birr     == ReduceLines(orderItems, 0)
      subtotal == 100 * birr
      tax      == TaxRatePercent * birr
  IN  [subtotal |-> subtotal, tax |-> tax, total |-> subtotal]

calculateTotals ==
  LET birr     == ReduceLines(orderItems, 0)
      subtotal == 100 * birr
      tax      == TaxRatePercent * birr
  IN  [subtotal |-> subtotal, tax |-> tax, total |-> subtotal + tax]

\* The body of handleAddItem run in a render whose closure holds `form` and
\* `items`, with Date.now() = t.  `added` is FALSE on the early returns,
\* where no state setter is called.
handleAddItemBody(form, items, t) ==
  LET menuItem == FindById(menuItems, form.menu_item_id)
  IN  IF form.menu_item_id = "" \/ menuItem = NULL
      THEN [added |-> FALSE, orderItems |-> items, newOrderItem |-> form]
      ELSE [added |-> TRUE,
            orderItems |-> Append(items,
               [id             |-> t,
                order_id       |-> IF currentOrder # NULL THEN currentOrder[1].id ELSE "new",
                menu_item_id   |-> form.menu_item_id,
                menu_item_name |-> menuItem[1].name,
                quantity       |-> form.quantity,
                unit_price     |-> menuItem[1].price,
                notes          |-> form.notes,
                status         |-> "new"]),
            newOrderItem |-> newOrderItemInitial]

\* The Current Order tab shows the order controls only for a selected table;
\* the modal payment dialog blocks the page behind it.
OrderControlsShown ==
  activeTab = 1 /\ selectedTable # NULL /\ ~openPaymentDialog

PosInit ==
  /\ activeTab = 0
  /\ selectedTable = NULL
  /\ openPaymentDialog = FALSE
  /\ currentOrder = NULL
  /\ orderItems = <<>>
  /\ newOrderItem = newOrderItemInitial
  /\ amountReceived = NULL
  /\ now = 0

handleTabChange(newValue) ==
  /\ ~openPaymentDialog
  /\ activeTab' = newValue
  /\ UNCHANGED <<selectedTable, openPaymentDialog, currentOrder, orderItems,
                 newOrderItem, amountReceived, now>>
  /\ UNCHANGED notPosVars

\* handleTableSelect opening an Order for the table
handleTableSelect_createsOrder(table) ==
  /\ activeTab = 0
  /\ ~openPaymentDialog
  /\ selectedTable' = Some(table)
  /\ currentOrder' = Some([id |-> "order", table_id |-> table.id, status |-> "new",
                           payment_status |-> "pending"])
  /\ orderItems' = <<>>
  /\ UNCHANGED <<activeTab, openPaymentDialog, newOrderItem, amountReceived, now>>
  /\ UNCHANGED notPosVars

handleTableSelect(table) ==
  /\ activeTab = 0
  /\ ~openPaymentDialog
  /\ selectedTable' = Some(table)
  /\ currentOrder' = NULL
  /\ orderItems' = <<>>
  /\ UNCHANGED <<activeTab, openPaymentDialog, newOrderItem, amountReceived, now>>
  /\ UNCHANGED notPosVars

\* Select onChange of the Add Item form
MenuItemSelectChange(id) ==
  /\ OrderControlsShown
  /\ newOrderItem' = [newOrderItem EXCEPT !.menu_item_id = id]
  /\ UNCHANGED <<activeTab, selectedTable, openPaymentDialog, currentOrder,
                 orderItems, amountReceived, now>>
  /\ UNCHANGED notPosVars

\* Quantity field onChange
QuantityChange(text) ==
  /\ OrderControlsShown
  /\ newOrderItem' = [newOrderItem EXCEPT !.quantity = parseIntOr1(text)]
  /\ UNCHANGED <<activeTab, selectedTable, openPaymentDialog, currentOrder,
                 orderItems, amountReceived, now>>
  /\ UNCHANGED notPosVars

\* The Add button of the Add Item form
handleAddItem ==
  /\ OrderControlsShown
  /\ \E t \in now..MaxClock :
       LET r == handleAddItemBody(newOrderItem, orderItems, t)
       IN  /\ r.added => Len(orderItems) < MaxItems
           /\ orderItems' = r.orderItems
           /\ newOrderItem' = r.newOrderItem
           /\ now' = IF r.added THEN t ELSE now
  /\ UNCHANGED <<activeTab, selectedTable, openPaymentDialog, currentOrder,
                 amountReceived>>
  /\ UNCHANGED notPosVars

\* The Add button of a menu card: setNewOrderItem({...newOrderItem,
\* menu_item_id}) followed by handleAddItem() in the same event.  Both read
\* the newOrderItem of the current render; the queued updates are applied in
\* order, so the form reset of handleAddItem, when it runs, wins.
MenuCardAdd(id) ==
  /\ OrderControlsShown
  /\ \E t \in now..MaxClock :
       LET r == handleAddItemBody(newOrderItem, orderItems, t)
       IN  /\ r.added => Len(orderItems) < MaxItems
           /\ orderItems' = r.orderItems
           /\ newOrderItem' = IF r.added THEN r.newOrderItem
                              ELSE [newOrderItem EXCEPT !.menu_item_id = id]
           /\ now' = IF r.added THEN t ELSE now
  /\ UNCHANGED <<activeTab, selectedTable, openPaymentDialog, currentOrder,
                 amountReceived>>
  /\ UNCHANGED notPosVars

handleRemoveItem(itemId) ==
  /\ OrderControlsShown
  /\ LET Keep(item) == item.id # itemId
     IN  orderItems' = SelectSeq(orderItems, Keep)
  /\ UNCHANGED <<activeTab, selectedTable, openPaymentDialog, currentOrder,
                 newOrderItem, amountReceived, now>>
  /\ UNCHANGED notPosVars

\* Process Payment button of the order (disabled for an empty order)
handleOpenPayment ==
  /\ OrderControlsShown
  /\ orderItems # <<>>
  /\ openPaymentDialog' = TRUE
  /\ UNCHANGED <<activeTab, selectedTable, currentOrder, orderItems,
                 newOrderItem, amountReceived, now>>
  /\ UNCHANGED notPosVars

\* Amounts typed in the Amount Received field, in santim: the total shown,
\* and two smaller ones
AmountChoices ==
  LET total == calculateTotals.total
  IN  {total, total \div 2, 100}

AmountReceivedInput(amount) ==
  /\ openPaymentDialog
  /\ amountReceived' = Some(amount)
  /\ UNCHANGED <<activeTab, selectedTable, openPaymentDialog, currentOrder,
                 orderItems, newOrderItem, now>>
  /\ UNCHANGED notPosVars

\* Cancel button and onClose of the dialog; the closed dialog unmounts its
\* content, so the field is empty when the dialog opens again
PaymentDialogClose ==
  /\ openPaymentDialog
  /\ openPaymentDialog' = FALSE
  /\ amountReceived' = NULL
  /\ UNCHANGED <<activeTab, selectedTable, currentOrder, orderItems,
                 newOrderItem, now>>
  /\ UNCHANGED notPosVars

\* Process Payment button of the dialog: logs and closes the dialog
handlePayment ==
  /\ openPaymentDialog
  /\ openPaymentDialog' = FALSE
  /\ amountReceived' = NULL
  /\ UNCHANGED <<activeTab, selectedTable, currentOrder, orderItems,
                 newOrderItem, now>>
  /\ UNCHANGED notPosVars

PosNext ==
  \/ \E v \in 0..2 : handleTabChange(v)
  \/ \E table \in TableChoices : handleTableSelect(table)
  \/ \E id \in MenuChoices : MenuItemSelectChange(id)
  \/ \E text \in QtyTexts : QuantityChange(text)
  \/ handleAddItem
  \/ \E id \in MenuChoices : MenuCardAdd(id)
  \/ \E i \in DOMAIN orderItems : handleRemoveItem(orderItems[i].id)
  \/ handleOpenPayment
  \/ \E amount \in AmountChoices : AmountReceivedInput(amount)
  \/ handlePayment
  \/ PaymentDialogClose

\* ------------------------------------------------------------------------
\* Inventory page (pages/Inventory, src/unnamed/part_004)
\* Stock levels are held in tenths of the item's unit and unit costs in
\* santim.
\* ------------------------------------------------------------------------

sampleInventoryItems ==
  << [id |-> "1", name |-> "Beef", category |-> "Raw Materials",
      current_stock |-> 125, unit |-> "kg", unit_cost |-> 62000,
      min_stock |-> 50, supplier |-> "Fresh Meat Co.", category_type |-> "Meat"],
     [id |-> "2", name |-> "Buns", category |-> "Raw Materials",
      current_stock |-> 2400, unit |-> "pcs", unit_cost |-> 520,
      min_stock |-> 1000, supplier |-> "Bun Supply Ltd.", category_type |-> "Bakery"],
     [id |-> "3", name |-> "Lettuce", category |-> "Raw Materials",
      current_stock |-> 152, unit |-> "kg", unit_cost |-> 8000,
      min_stock |-> 30, supplier |-> "Fresh Vegetables Inc.", category_type |-> "Vegetables"] >>

invFormEmpty ==
  [name |-> "", category |-> "", currentStock |-> <<>>, unit |-> "",
   unitCost |-> <<>>, minStock |-> <<>>, supplier |-> "", categoryType |-> ""]

\* The status cell of an item's row in the Inventory Items tab
RowStatus(item) ==
  IF item.current_stock <= item.min_stock THEN "Low Stock!"
  ELSE IF 2 * item.current_stock <= 3 * item.min_stock THEN "Warning"
  ELSE "OK"

\* The Low Stock tab with < in place of <=
LowStockRows_strict ==
  LET Low(item) == item.current_stock < item.min_stock
  IN  SelectSeq(inventoryItems, Low)

\* The rows of the Low Stock tab
LowStockRows ==
  LET Low(item) == item.current_stock <= item.min_stock
  IN  SelectSeq(inventoryItems, Low)

\* The inventory lists the Low Stock rule is checked on: the sample rows with
\* every stock level and minimum stock up to MaxStock.
InventoryLists ==
  { [i \in 1..Len(sampleInventoryItems) |->
       [sampleInventoryItems[i] EXCEPT !.current_stock = levels[i][1],
                                       !.min_stock = levels[i][2]]] :
    levels \in [1..Len(sampleInventoryItems) -> (0..MaxStock) \X (0..MaxStock)] }

InvInitCommon ==
  /\ invActiveTab = 0
  /\ invOpenDialog = FALSE
  /\ invDialogMode = "add"
  /\ invCurrentItem = NULL
  /\ invForm = invFormEmpty

\* the page as the program builds it
InvInit ==
  /\ InvInitCommon
  /\ inventoryItems = sampleInventoryItems

\* the page over every inventory list of InventoryLists
InvInitAnyList ==
  /\ InvInitCommon
  /\ inventoryItems \in InventoryLists

invHandleTabChange(newValue) ==
  /\ ~invOpenDialog
  /\ invActiveTab' = newValue
  /\ UNCHANGED <<inventoryItems, invOpenDialog, invDialogMode, invCurrentItem, invForm>>
  /\ UNCHANGED notInvVars

\* handleOpenDialog('add'): the Add Inventory Item button of the first tab
invHandleOpenDialogAdd ==
  /\ invActiveTab = 0
  /\ ~invOpenDialog
  /\ invDialogMode' = "add"
  /\ invCurrentItem' = NULL
  /\ invForm' = invFormEmpty
  /\ invOpenDialog' = TRUE
  /\ UNCHANGED <<invActiveTab, inventoryItems>>
  /\ UNCHANGED notInvVars

\* handleOpenDialog('edit', item): the Edit button of an item's row
invHandleOpenDialogEdit(item) ==
  /\ invActiveTab = 0
  /\ ~invOpenDialog
  /\ invDialogMode' = "edit"
  /\ invCurrentItem' = Some(item)
  /\ invForm' = [name |-> item.name, category |-> item.category,
                 currentStock |-> TenthsToText(item.current_stock),
                 unit |-> item.unit,
                 unitCost |-> IntToText(item.unit_cost),
                 minStock |-> TenthsToText(item.min_stock),
                 supplier |-> item.supplier, categoryType |-> item.category_type]
  /\ invOpenDialog' = TRUE
  /\ UNCHANGED <<invActiveTab, inventoryItems>>
  /\ UNCHANGED notInvVars

invHandleCloseDialog ==
  /\ invOpenDialog
  /\ invOpenDialog' = FALSE
  /\ UNCHANGED <<invActiveTab, inventoryItems, invDialogMode, invCurrentItem, invForm>>
  /\ UNCHANGED notInvVars

\* handleSubmit logs the parsed form and closes the dialog; the list is not
\* changed
invHandleSubmit ==
  /\ invOpenDialog
  /\ invOpenDialog' = FALSE
  /\ UNCHANGED <<invActiveTab, inventoryItems, invDialogMode, invCurrentItem, invForm>>
  /\ UNCHANGED notInvVars

InvNext ==
  \/ \E v \in 0..3 : invHandleTabChange(v)
  \/ invHandleOpenDialogAdd
  \/ \E i \in DOMAIN inventoryItems : invHandleOpenDialogEdit(inventoryItems[i])
  \/ invHandleSubmit
  \/ invHandleCloseDialog

\* ------------------------------------------------------------------------
\* Menu store (features/menu/menuSlice, src/unnamed/part_006)
\*
\* A MenuItem is held with its id, name, price and cost; the fields no
\* reducer and no rendered cell computes with (description, category,
\* availability, prep time) are left out.  The server is outside the
\* program: it answers a request with any entity of the bounded domains
\* below, or with an error, so the body of a request is not held.
\* ------------------------------------------------------------------------

menuInitialState ==
  [categories |-> <<>>, items |-> <<>>, loading |-> FALSE, error |-> NULL]

\* ids the server gives menu items
MenuIds == {"m1", "m2"}

\* (price, cost) of the items the server returns, in eighths of a Birr:
\* 250 and 100 Birr, and 0.125 and 0 Birr
PriceCostChoices == { <<2000, 800>>, <<1, 0>> }

ItemPayloads ==
  { [id |-> i, name |-> "Item", price |-> pc[1], cost |-> pc[2]] :
      i \in MenuIds, pc \in PriceCostChoices }

\* the lists GET /menu/items/ returns: rows of the items table, no id twice
ItemListPayloads ==
  { list \in UNION { [1..n -> ItemPayloads] : n \in 0..MaxMenuItems } :
      \A i, j \in DOMAIN list : list[i].id = list[j].id => i = j }

CategoryListPayloads ==
  { <<>>, <<[id |-> "c1", name |-> "Burgers", description |-> "",
             display_order |-> 1, is_active |-> TRUE]>> }

\* the `detail` of an error response that carries one
ServerDetail == "Not authenticated"

\* the message a thunk rejects with when the error carries no detail
FallbackMessage(op) ==
  CASE op = "fetchCategories" -> "Failed to fetch categories"
    [] op = "fetchItems"      -> "Failed to fetch menu items"
    [] op = "addItem"         -> "Failed to add menu item"
    [] op = "updateItem"      -> "Failed to update menu item"
    [] op = "deleteItem"      -> "Failed to delete menu item"

\* index of the first item with the id, 0 for findIndex's -1
FindIndexById(items, id) ==
  LET hits == {i \in DOMAIN items : items[i].id = id}
  IN  IF hits = {} THEN 0 ELSE CHOOSE i \in hits : \A j \in hits : i <= j

\* menuSlice's extraReducers: the state after an action of a thunk.  kind is
\* "pending", "fulfilled" or "rejected"; a case the slice does not list
\* leaves the state as it is.
menuReducer(st, op, kind, payload) ==
  CASE op \in {"fetchCategories", "fetchItems"} /\ kind = "pending" ->
         [st EXCEPT !.loading = TRUE, !.error = NULL]
    [] op = "fetchCategories" /\ kind = "fulfilled" ->
         [st EXCEPT !.loading = FALSE, !.categories = payload]
    [] op = "fetchItems" /\ kind = "fulfilled" ->
         [st EXCEPT !.loading = FALSE, !.items = payload]
    [] op \in {"fetchCategories", "fetchItems"} /\ kind = "rejected" ->
         [st EXCEPT !.loading = FALSE, !.error = Some(payload)]
    [] op = "addItem" /\ kind = "fulfilled" ->
         [st EXCEPT !.items = Append(st.items, payload)]
    [] op = "updateItem" /\ kind = "fulfilled" ->
         LET index == FindIndexById(st.items, payload.id)
         IN  IF index # 0 THEN [st EXCEPT !.items[index] = payload] ELSE st
    [] op = "deleteItem" /\ kind = "fulfilled" ->
         LET Keep(item) == item.id # payload
         IN  [st EXCEPT !.items = SelectSeq(st.items, Keep)]
    [] op \in {"addItem", "updateItem", "deleteItem"} /\ kind = "rejected" ->
         [st EXCEPT !.error = Some(payload)]
    [] OTHER -> st

\* The Authorization header that sends the token as a Bearer token
BearerHeader_tokenOnly(token) == <<token>>

\* `Bearer ${token}`: the Authorization header of a request
BearerHeader(token) == <<"Bearer ", token>>

\* A thunk's request as it waits for its response: the token is the one
\* localStorage holds when the thunk runs; awaited says that a handleSubmit
\* of the mounted page waits for the thunk
MenuRequest(op, id, awaited) ==
  [op |-> op, id |-> id,
   headers |-> [Authorization |-> BearerHeader(localStorageToken[1])],
   awaited |-> awaited]

\* a request whose page is gone: the setState calls of its handler do nothing
Unawaited(req) == [req EXCEPT !.awaited = FALSE]

\* `if (!token)`: no token, or the empty one
NoToken == localStorageToken = NULL \/ localStorageToken = Some("")

\* ------------------------------------------------------------------------
\* Menu Management page (frontend/src/pages/MenuManagement.tsx)
\* ------------------------------------------------------------------------

mmFormEmpty == [name |-> "", price |-> <<>>, cost |-> <<>>]

\* The Profit Margin cell showing the price without the cost taken off
MarginShown_priceOnly(item) == toFixed2(item.price)

\* The Profit Margin cell of an item's row
MarginShown(item) == toFixed2(item.price - item.cost)

\* The COGS (Birr) cell of an item's row: the item's cost
CogsShown(item) == item.cost

\* The ingredients of an item's recipe the client holds: the Recipes tab is a
\* text announcing the recipe builder, and no state holds a recipe
RecipeIngredients(item) == <<>>

MenuPageInitial ==
  /\ mmMounted = FALSE
  /\ mmActiveTab = 0
  /\ mmOpenDialog = FALSE
  /\ mmDialogMode = "add"
  /\ mmCurrentItem = NULL
  /\ mmForm = mmFormEmpty

\* the store and the page before anyone logged in
MenuInit ==
  /\ localStorageToken = NULL
  /\ menu = menuInitialState
  /\ menuPending = EmptyBag
  /\ MenuPageInitial

\* the page reached with or without a token in localStorage
MenuInitAnyToken ==
  /\ localStorageToken \in {NULL, Some("tokenA")}
  /\ menu = menuInitialState
  /\ menuPending = EmptyBag
  /\ MenuPageInitial

\* useEffect on mount: dispatch(fetchMenuItems()); dispatch(fetchCategories()).
\* Both pending actions are dispatched at once; without a token both thunks
\* then reject, in this order, before any other event.
MenuPageMount ==
  /\ ~mmMounted
  /\ mmMounted' = TRUE
  /\ LET p1 == menuReducer(menu, "fetchItems", "pending", NULL)
         p2 == menuReducer(p1, "fetchCategories", "pending", NULL)
     IN  IF NoToken
         THEN /\ menu' = menuReducer(
                           menuReducer(p2, "fetchItems", "rejected",
                                       FallbackMessage("fetchItems")),
                           "fetchCategories", "rejected",
                           FallbackMessage("fetchCategories"))
              /\ UNCHANGED menuPending
         ELSE /\ BagCardinality(menuPending) + 2 <= MaxInFlight
              /\ menu' = p2
              /\ menuPending' = menuPending
                                (+) SetToBag({MenuRequest("fetchItems", "", FALSE)})
                                (+) SetToBag({MenuRequest("fetchCategories", "", FALSE)})
  /\ UNCHANGED <<localStorageToken, mmActiveTab, mmOpenDialog, mmDialogMode,
                 mmCurrentItem, mmForm>>
  /\ UNCHANGED notMenuVars

\* leaving the page: its useState cells are dropped, the store is kept
MenuPageUnmount ==
  /\ mmMounted
  /\ mmMounted' = FALSE
  /\ mmActiveTab' = 0
  /\ mmOpenDialog' = FALSE
  /\ mmDialogMode' = "add"
  /\ mmCurrentItem' = NULL
  /\ mmForm' = mmFormEmpty
  /\ menuPending' = BagOfAll(Unawaited, menuPending)
  /\ UNCHANGED <<localStorageToken, menu>>
  /\ UNCHANGED notMenuVars

mmHandleTabChange(newValue) ==
  /\ mmMounted /\ ~mmOpenDialog
  /\ mmActiveTab' = newValue
  /\ UNCHANGED <<localStorageToken, menu, menuPending, mmMounted, mmOpenDialog,
                 mmDialogMode, mmCurrentItem, mmForm>>
  /\ UNCHANGED notMenuVars

\* handleOpenDialog('add'): the Add Menu Item button
mmHandleOpenDialogAdd ==
  /\ mmMounted /\ mmActiveTab = 0 /\ ~mmOpenDialog
  /\ mmDialogMode' = "add"
  /\ mmCurrentItem' = NULL
  /\ mmForm' = mmFormEmpty
  /\ mmOpenDialog' = TRUE
  /\ UNCHANGED <<localStorageToken, menu, menuPending, mmMounted, mmActiveTab>>
  /\ UNCHANGED notMenuVars

\* handleOpenDialog('edit', item): the Edit button of an item's row
mmHandleOpenDialogEdit(item) ==
  /\ mmMounted /\ mmActiveTab = 0 /\ ~mmOpenDialog
  /\ mmDialogMode' = "edit"
  /\ mmCurrentItem' = Some(item)
  /\ mmForm' = [name |-> item.name, price |-> EighthsToText(item.price),
                cost |-> EighthsToText(item.cost)]
  /\ mmOpenDialog' = TRUE
  /\ UNCHANGED <<localStorageToken, menu, menuPending, mmMounted, mmActiveTab>>
  /\ UNCHANGED notMenuVars

mmHandleCloseDialog ==
  /\ mmMounted /\ mmOpenDialog
  /\ mmOpenDialog' = FALSE
  /\ UNCHANGED <<localStorageToken, menu, menuPending, mmMounted, mmActiveTab,
                 mmDialogMode, mmCurrentItem, mmForm>>
  /\ UNCHANGED notMenuVars

\* handleSubmit up to its await: dispatches addMenuItem in add mode and
\* updateMenuItem for the item being edited.  Without a token the thunk
\* rejects at once, unwrap() throws and the dialog stays open; with one the
\* request is sent and the handler waits for the thunk.
mmHandleSubmit ==
  /\ mmMounted /\ mmOpenDialog
  /\ mmDialogMode = "add" \/ mmCurrentItem # NULL
  /\ LET op == IF mmDialogMode = "add" THEN "addItem" ELSE "updateItem"
         id == IF mmDialogMode = "add" THEN "" ELSE mmCurrentItem[1].id
     IN  IF NoToken
         THEN /\ menu' = menuReducer(menu, op, "rejected", FallbackMessage(op))
              /\ UNCHANGED menuPending
         ELSE /\ BagCardinality(menuPending) < MaxInFlight
              /\ menuPending' = menuPending (+) SetToBag({MenuRequest(op, id, TRUE)})
              /\ UNCHANGED menu
  /\ UNCHANGED <<localStorageToken, mmMounted, mmActiveTab, mmOpenDialog,
                 mmDialogMode, mmCurrentItem, mmForm>>
  /\ UNCHANGED notMenuVars

\* what the server may return to a request
ResponsePayloads(req) ==
  CASE req.op = "fetchCategories" -> CategoryListPayloads
    [] req.op = "fetchItems"      -> ItemListPayloads
    [] req.op = "addItem"         -> ItemPayloads
    [] req.op = "updateItem"      -> {p \in ItemPayloads : p.id = req.id}
    [] req.op = "deleteItem"      -> {req.id}

\* A request succeeds: the thunk is fulfilled with the response data, and a
\* handleSubmit waiting for it goes on to handleCloseDialog.
ThunkFulfilled(req, payload) ==
  /\ BagIn(req, menuPending)
  /\ menuPending' = menuPending (-) SetToBag({req})
  /\ menu' = menuReducer(menu, req.op, "fulfilled", payload)
  /\ mmOpenDialog' = IF req.awaited THEN FALSE ELSE mmOpenDialog
  /\ UNCHANGED <<localStorageToken, mmMounted, mmActiveTab, mmDialogMode,
                 mmCurrentItem, mmForm>>
  /\ UNCHANGED notMenuVars

\* A request fails: the thunk is rejected with the error's detail or, without
\* one, with its own message; a handleSubmit waiting for it logs the error.
ThunkRejected(req, message) ==
  /\ BagIn(req, menuPending)
  /\ menuPending' = menuPending (-) SetToBag({req})
  /\ menu' = menuReducer(menu, req.op, "rejected", message)
  /\ UNCHANGED <<localStorageToken, mmMounted, mmActiveTab, mmOpenDialog,
                 mmDialogMode, mmCurrentItem, mmForm>>
  /\ UNCHANGED notMenuVars

MenuNext ==
  \/ MenuPageMount
  \/ MenuPageUnmount
  \/ \E v \in 0..2 : mmHandleTabChange(v)
  \/ mmHandleOpenDialogAdd
  \/ \E i \in DOMAIN menu.items : mmHandleOpenDialogEdit(menu.items[i])
  \/ mmHandleCloseDialog
  \/ mmHandleSubmit
  \/ \E req \in BagToSet(menuPending) :
       \E payload \in ResponsePayloads(req) :
         /\ req.op = "addItem" => Len(menu.items) < MaxMenuItems
         /\ ThunkFulfilled(req, payload)
  \/ \E req \in BagToSet(menuPending) :
       \E message \in {ServerDetail, FallbackMessage(req.op)} :
         ThunkRejected(req, message)

\* ------------------------------------------------------------------------
\* Reports page (frontend/src/pages/Reports.tsx)
\* ------------------------------------------------------------------------

\* The Inventory Variance table with the variance as theoretical - actual
varianceRows_swapped ==
  << [ingredient  |-> "Beef",
      theoretical |-> <<"1", "5", ".", "2", " ", "k", "g">>,
      actual      |-> <<"1", "4", ".", "1", " ", "k", "g">>,
      variance    |-> <<"+", "1", ".", "1", " ", "k", "g">>],
     [ingredient  |-> "Cheese",
      theoretical |-> <<"3", ".", "0", " ", "k", "g">>,
      actual      |-> <<"2", ".", "9", "5", " ", "k", "g">>,
      variance    |-> <<"+", "0", ".", "0", "5", " ", "k", "g">>],
     [ingredient  |-> "Lettuce",
      theoretical |-> <<"5", ".", "5", " ", "k", "g">>,
      actual      |-> <<"5", ".", "6", " ", "k", "g">>,
      variance    |-> <<"-", "0", ".", "1", " ", "k", "g">>] >>

\* The rows of the Inventory Variance table, cell texts as written in the
\* page
varianceRows ==
  << [ingredient  |-> "Beef",
      theoretical |-> <<"1", "5", ".", "2", " ", "k", "g">>,
      actual      |-> <<"1", "4", ".", "1", " ", "k", "g">>,
      variance    |-> <<"-", "1", ".", "1", " ", "k", "g">>],
     [ingredient  |-> "Cheese",
      theoretical |-> <<"3", ".", "0", " ", "k", "g">>,
      actual      |-> <<"2", ".", "9", "5", " ", "k", "g">>,
      variance    |-> <<"-", "0", ".", "0", "5", " ", "k", "g">>],
     [ingredient  |-> "Lettuce",
      theoretical |-> <<"5", ".", "5", " ", "k", "g">>,
      actual      |-> <<"5", ".", "6", " ", "k", "g">>,
      variance    |-> <<"+", "0", ".", "1", " ", "k", "g">>] >>

\* Dates picked in the Start Date and End Date fields
DateChoices ==
  {"2023-05-01", "2023-06-01", "2023-06-15", "2023-06-30", "2023-07-31", ""}

RepInit ==
  /\ repActiveTab = 0
  /\ dateRange = [startDate |-> "2023-06-01", endDate |-> "2023-06-30"]

repHandleTabChange(newValue) ==
  /\ repActiveTab' = newValue
  /\ UNCHANGED dateRange
  /\ UNCHANGED notRepVars

StartDateChange(date) ==
  /\ dateRange' = [dateRange EXCEPT !.startDate = date]
  /\ UNCHANGED repActiveTab
  /\ UNCHANGED notRepVars

EndDateChange(date) ==
  /\ dateRange' = [dateRange EXCEPT !.endDate = date]
  /\ UNCHANGED repActiveTab
  /\ UNCHANGED notRepVars

RepNext ==
  \/ \E v \in 0..3 : repHandleTabChange(v)
  \/ \E date \in DateChoices : StartDateChange(date)
  \/ \E date \in DateChoices : EndDateChange(date)

\* ------------------------------------------------------------------------
\* Waiter app: auth context (mobile/src/context/AuthContext.js)
\* ------------------------------------------------------------------------

mAuthInitialState ==
  [user |-> NULL, token |-> NULL, isLoading |-> FALSE, error |-> NULL,
   isAuthenticated |-> FALSE]

authReducer(state, action) ==
  CASE action.type = "LOGIN_START" ->
         [state EXCEPT !.isLoading = TRUE, !.error = NULL]
    [] action.type = "LOGIN_SUCCESS" ->
         [state EXCEPT !.isLoading = FALSE, !.user = Some(action.payload.user),
                       !.token = Some(action.payload.token),
                       !.isAuthenticated = TRUE, !.error = NULL]
    [] action.type = "LOGIN_FAILURE" ->
         [state EXCEPT !.isLoading = FALSE, !.error = Some(action.payload),
                       !.isAuthenticated = FALSE]
    [] action.type = "LOGOUT" ->
         [state EXCEPT !.user = NULL, !.token = NULL, !.isAuthenticated = FALSE]
    [] action.type = "SET_ERROR" ->
         [state EXCEPT !.error = action.payload]
    [] OTHER -> state

\* access tokens and profiles the server answers a login with
MobileTokens == {"waiterToken1", "waiterToken2"}

MobileUsers == {"waiter"}

\* message of a failed login request: the response's detail, the fallback,
\* or the message of the error fetch itself threw
LoginFailureMessages == {"Incorrect email or password", "Login failed",
                         "Network request failed"}

\* message of a failed profile request
ProfileFailureMessages == {"Failed to fetch user profile",
                           "Network request failed"}

MobileAuthInit ==
  /\ mAuth = mAuthInitialState
  /\ mLogins = EmptyBag

\* login(email, password) up to its first await
mLogin ==
  /\ BagCardinality(mLogins) < MaxLogins
  /\ mAuth' = authReducer(mAuth, [type |-> "LOGIN_START"])
  /\ mLogins' = mLogins (+) SetToBag({[phase |-> "login", token |-> NULL]})
  /\ UNCHANGED notMobileAuthVars

\* the login request is answered with an access token: the profile request
\* is sent with it
mLoginAccepted(call, token) ==
  /\ BagIn(call, mLogins) /\ call.phase = "login"
  /\ mLogins' = (mLogins (-) SetToBag({call}))
                (+) SetToBag({[phase |-> "profile", token |-> Some(token)]})
  /\ UNCHANGED mAuth
  /\ UNCHANGED notMobileAuthVars

\* the login request fails: catch dispatches LOGIN_FAILURE
mLoginRefused(call, message) ==
  /\ BagIn(call, mLogins) /\ call.phase = "login"
  /\ mLogins' = mLogins (-) SetToBag({call})
  /\ mAuth' = authReducer(mAuth, [type |-> "LOGIN_FAILURE", payload |-> message])
  /\ UNCHANGED notMobileAuthVars

\* the profile request is answered: LOGIN_SUCCESS with the user and the token
mProfileLoaded(call, user) ==
  /\ BagIn(call, mLogins) /\ call.phase = "profile"
  /\ mLogins' = mLogins (-) SetToBag({call})
  /\ mAuth' = authReducer(mAuth, [type |-> "LOGIN_SUCCESS",
                                  payload |-> [user |-> user, token |-> call.token[1]]])
  /\ UNCHANGED notMobileAuthVars

\* the profile request fails: catch dispatches LOGIN_FAILURE
mProfileFailed(call, message) ==
  /\ BagIn(call, mLogins) /\ call.phase = "profile"
  /\ mLogins' = mLogins (-) SetToBag({call})
  /\ mAuth' = authReducer(mAuth, [type |-> "LOGIN_FAILURE", payload |-> message])
  /\ UNCHANGED notMobileAuthVars

mLogout ==
  /\ mAuth' = authReducer(mAuth, [type |-> "LOGOUT"])
  /\ UNCHANGED mLogins
  /\ UNCHANGED notMobileAuthVars

mClearError ==
  /\ mAuth' = authReducer(mAuth, [type |-> "SET_ERROR", payload |-> NULL])
  /\ UNCHANGED mLogins
  /\ UNCHANGED notMobileAuthVars

MobileAuthNext ==
  \/ mLogin
  \/ \E call \in BagToSet(mLogins) :
       \E token \in MobileTokens : mLoginAccepted(call, token)
  \/ \E call \in BagToSet(mLogins) :
       \E message \in LoginFailureMessages : mLoginRefused(call, message)
  \/ \E call \in BagToSet(mLogins) :
       \E user \in MobileUsers : mProfileLoaded(call, user)
  \/ \E call \in BagToSet(mLogins) :
       \E message \in ProfileFailureMessages : mProfileFailed(call, message)
  \/ mLogout
  \/ mClearError

\* ------------------------------------------------------------------------
\* Waiter app: order screen (mobile/src/screens/OrderScreen.js)
\* ------------------------------------------------------------------------

mobileMenuItems ==
  << [id |-> "1", name |-> "Beef Burger",    price |-> 250, category |-> "Burgers"],
     [id |-> "2", name |-> "Chicken Burger", price |-> 220, category |-> "Burgers"],
     [id |-> "3", name |-> "Coke 330ml",     price |-> 40,  category |-> "Drinks"],
     [id |-> "4", name |-> "Fanta 330ml",    price |-> 40,  category |-> "Drinks"],
     [id |-> "5", name |-> "French Fries",   price |-> 80,  category |-> "Sides"],
     [id |-> "6", name |-> "Onion Rings",    price |-> 90,  category |-> "Sides"] >>

\* ['All', ...new Set(menuItems.map(item => item.category))]
categories ==
  {"All"} \cup {mobileMenuItems[i].category : i \in DOMAIN mobileMenuItems}

\* the cards listed under the selected category
filteredMenuItems ==
  LET InCategory(item) == item.category = selectedCategory
  IN  IF selectedCategory = "All" THEN mobileMenuItems
      ELSE SelectSeq(mobileMenuItems, InCategory)

\* the cards the waiter presses in the explored runs: one of each category
MobileCardChoices == {"1", "3", "5"}

\* the line of the item, with `quantity` added or replaced
WithQuantity(item, q) ==
  [id |-> item.id, name |-> item.name, price |-> item.price,
   category |-> item.category, quantity |-> q]

\* largest quantity among the lines of the id, 0 without one
LineQuantity(items, id) ==
  LET qs == {items[i].quantity : i \in {j \in DOMAIN items : items[j].id = id}}
  IN  IF qs = {} THEN 0 ELSE CHOOSE q \in qs : \A r \in qs : r <= q

MobileOrderInit ==
  /\ mOrderItems = <<>>
  /\ selectedCategory = "All"

\* addToOrder appending a line at every press
addToOrder_alwaysAppends(item) ==
  /\ LineQuantity(mOrderItems, item.id) < MaxQty
  /\ mOrderItems' = Append(mOrderItems, WithQuantity(item, 1))
  /\ UNCHANGED selectedCategory
  /\ UNCHANGED notMobileOrderVars

\* addToOrder(item): a menu card, or the + of an order line, is pressed
addToOrder(item) ==
  /\ LineQuantity(mOrderItems, item.id) < MaxQty
  /\ LET existingItem == FindById(mOrderItems, item.id)
     IN  IF existingItem # NULL
         THEN mOrderItems' =
                [i \in DOMAIN mOrderItems |->
                   IF mOrderItems[i].id = item.id
                   THEN [mOrderItems[i] EXCEPT !.quantity = @ + 1]
                   ELSE mOrderItems[i]]
         ELSE mOrderItems' = Append(mOrderItems, WithQuantity(item, 1))
  /\ UNCHANGED selectedCategory
  /\ UNCHANGED notMobileOrderVars

\* removeFromOrder(itemId): the - of an order line is pressed
removeFromOrder(itemId) ==
  /\ LET existingItem == FindById(mOrderItems, itemId)
         Others(item) == item.id # itemId
     IN  IF existingItem # NULL /\ existingItem[1].quantity > 1
         THEN mOrderItems' =
                [i \in DOMAIN mOrderItems |->
                   IF mOrderItems[i].id = itemId
                   THEN [mOrderItems[i] EXCEPT !.quantity = @ - 1]
                   ELSE mOrderItems[i]]
         ELSE mOrderItems' = SelectSeq(mOrderItems, Others)
  /\ UNCHANGED selectedCategory
  /\ UNCHANGED notMobileOrderVars

\* a category chip is pressed
SelectCategory(category) ==
  /\ selectedCategory' = category
  /\ UNCHANGED mOrderItems
  /\ UNCHANGED notMobileOrderVars

\* sendToKitchen: the alert, then navigation.goBack(); the screen's state is
\* gone and the next visit starts from the initial one
sendToKitchen ==
  /\ mOrderItems # <<>>
  /\ mOrderItems' = <<>>
  /\ selectedCategory' = "All"
  /\ UNCHANGED notMobileOrderVars

MobileOrderNext ==
  \/ \E i \in DOMAIN filteredMenuItems :
       /\ filteredMenuItems[i].id \in MobileCardChoices
       /\ addToOrder(filteredMenuItems[i])
  \/ \E i \in DOMAIN mOrderItems : addToOrder(mOrderItems[i])
  \/ \E i \in DOMAIN mOrderItems : removeFromOrder(mOrderItems[i].id)
  \/ \E category \in categories : SelectCategory(category)
  \/ sendToKitchen

\* ------------------------------------------------------------------------
\* Users store (frontend/src/features/users/usersSlice.ts)
\*
\* A User is held with its id and role; the fields no reducer reads (email,
\* full_name, is_active, the dates) are left out.
\* ------------------------------------------------------------------------

usersInitialState == [users |-> <<>>, loading |-> FALSE, error |-> NULL]

\* ids the server gives users
UserIds == {"u1", "u2"}

UserPayloads == { [id |-> i, role |-> r] : i \in UserIds, r \in {"admin", "waiter"} }

\* the lists GET /users returns: rows of the users table, no id twice
UserListPayloads ==
  { list \in UNION { [1..n -> UserPayloads] : n \in 0..MaxListLen } :
      \A i, j \in DOMAIN list : list[i].id = list[j].id => i = j }

\* the lists GET /menu/items/ returns to a thunk dispatched on the store
StoreItemListPayloads ==
  { list \in UNION { [1..n -> ItemPayloads] : n \in 0..MaxListLen } :
      \A i, j \in DOMAIN list : list[i].id = list[j].id => i = j }

\* the message a users thunk rejects with when the error carries no detail
UsersFallbackMessage(op) ==
  CASE op = "fetchUsers" -> "Failed to fetch users"
    [] op = "deleteUser" -> "Failed to delete user"
    [] op = "addUser"    -> "Failed to add user"
    [] op = "updateUser" -> "Failed to update user"

\* usersSlice's extraReducers with updateUser.fulfilled adding the user
\* returned instead of replacing the one held
usersReducer_updateAppends(st, op, kind, payload) ==
  CASE op = "fetchUsers" /\ kind = "pending" ->
         [st EXCEPT !.loading = TRUE, !.error = NULL]
    [] op = "fetchUsers" /\ kind = "fulfilled" ->
         [st EXCEPT !.loading = FALSE, !.users = payload]
    [] op = "fetchUsers" /\ kind = "rejected" ->
         [st EXCEPT !.loading = FALSE, !.error = Some(payload)]
    [] op = "deleteUser" /\ kind = "fulfilled" ->
         LET Keep(user) == user.id # payload
         IN  [st EXCEPT !.users = SelectSeq(st.users, Keep)]
    [] op = "addUser" /\ kind = "fulfilled" ->
         [st EXCEPT !.users = Append(st.users, payload)]
    [] op = "updateUser" /\ kind = "fulfilled" ->
         [st EXCEPT !.users = Append(st.users, payload)]
    [] op \in {"deleteUser", "addUser", "updateUser"} /\ kind = "rejected" ->
         [st EXCEPT !.error = Some(payload)]
    [] OTHER -> st

\* usersSlice's extraReducers: the state after an action of a thunk
usersReducer(st, op, kind, payload) ==
  CASE op = "fetchUsers" /\ kind = "pending" ->
         [st EXCEPT !.loading = TRUE, !.error = NULL]
    [] op = "fetchUsers" /\ kind = "fulfilled" ->
         [st EXCEPT !.loading = FALSE, !.users = payload]
    [] op = "fetchUsers" /\ kind = "rejected" ->
         [st EXCEPT !.loading = FALSE, !.error = Some(payload)]
    [] op = "deleteUser" /\ kind = "fulfilled" ->
         LET Keep(user) == user.id # payload
         IN  [st EXCEPT !.users = SelectSeq(st.users, Keep)]
    [] op = "addUser" /\ kind = "fulfilled" ->
         [st EXCEPT !.users = Append(st.users, payload)]
    [] op = "updateUser" /\ kind = "fulfilled" ->
         LET index == FindIndexById(st.users, payload.id)
         IN  IF index # 0 THEN [st EXCEPT !.users[index] = payload] ELSE st
    [] op \in {"deleteUser", "addUser", "updateUser"} /\ kind = "rejected" ->
         [st EXCEPT !.error = Some(payload)]
    [] OTHER -> st

\* A users thunk's request as it waits for its response
UsersRequest(op, id) ==
  [op |-> op, id |-> id,
   headers |-> [Authorization |-> BearerHeader(localStorageToken[1])]]

UsersOps == {"fetchUsers", "deleteUser", "addUser", "updateUser"}

\* the argument a thunk is dispatched with, as far as its request shows it:
\* the id in the URL of a delete or an update
UsersArgs(op) == IF op \in {"deleteUser", "updateUser"} THEN UserIds ELSE {""}

UsersStoreInit ==
  /\ users = usersInitialState
  /\ usersPending = EmptyBag
  /\ dispatched = 0

\* dispatch(fetchUsers()), dispatch(deleteUser(id)), dispatch(addUser(data)),
\* dispatch(updateUser({id, userData})): the pending action, then the thunk
\* up to its await.  Without a token the thunk throws before any request and
\* is rejected with its own message.
usersDispatch(op, id) ==
  /\ dispatched < MaxDispatches
  /\ dispatched' = dispatched + 1
  /\ LET p == usersReducer(users, op, "pending", NULL)
     IN  IF NoToken
         THEN /\ users' = usersReducer(p, op, "rejected", UsersFallbackMessage(op))
              /\ UNCHANGED usersPending
         ELSE /\ users' = p
              /\ usersPending' = usersPending (+) SetToBag({UsersRequest(op, id)})
  /\ UNCHANGED notUsersVars

\* what the server may return to a users request
UsersResponsePayloads(req) ==
  CASE req.op = "fetchUsers" -> UserListPayloads
    [] req.op = "addUser"    -> UserPayloads
    [] req.op = "updateUser" -> {p \in UserPayloads : p.id = req.id}
    [] req.op = "deleteUser" -> {req.id}

\* A users request succeeds: the thunk is fulfilled with the response data
\* (with the id it was given, for deleteUser)
UsersThunkFulfilled(req, payload) ==
  /\ BagIn(req, usersPending)
  /\ usersPending' = usersPending (-) SetToBag({req})
  /\ users' = usersReducer(users, req.op, "fulfilled", payload)
  /\ UNCHANGED dispatched
  /\ UNCHANGED notUsersVars

\* A failed users request sent again: the request stays in flight
UsersThunkRejected_retries(req, message) ==
  /\ BagIn(req, usersPending)
  /\ usersPending' = usersPending
  /\ users' = usersReducer(users, req.op, "rejected", message)
  /\ UNCHANGED dispatched
  /\ UNCHANGED notUsersVars

\* A users request fails: the thunk is rejected with the error's detail or,
\* without one, with its own message
UsersThunkRejected(req, message) ==
  /\ BagIn(req, usersPending)
  /\ usersPending' = usersPending (-) SetToBag({req})
  /\ users' = usersReducer(users, req.op, "rejected", message)
  /\ UNCHANGED dispatched
  /\ UNCHANGED notUsersVars

UsersStoreNext ==
  \/ \E op \in UsersOps : \E id \in UsersArgs(op) : usersDispatch(op, id)
  \/ \E req \in BagToSet(usersPending) :
       \E payload \in UsersResponsePayloads(req) :
         /\ req.op = "addUser" => Len(users.users) < MaxListLen
         /\ UsersThunkFulfilled(req, payload)
  \/ \E req \in BagToSet(usersPending) :
       \E message \in {ServerDetail, UsersFallbackMessage(req.op)} :
         UsersThunkRejected(req, message)

\* ------------------------------------------------------------------------
\* Menu thunks dispatched on the store (src/unnamed/part_006)
\* ------------------------------------------------------------------------

MenuOps == {"fetchCategories", "fetchItems", "addItem", "updateItem", "deleteItem"}

MenuArgs(op) == IF op \in {"updateItem", "deleteItem"} THEN MenuIds ELSE {""}

\* dispatch of a menu thunk by a caller that does not wait for it
menuDispatch(op, id) ==
  /\ dispatched < MaxDispatches
  /\ dispatched' = dispatched + 1
  /\ LET p == menuReducer(menu, op, "pending", NULL)
     IN  IF NoToken
         THEN /\ menu' = menuReducer(p, op, "rejected", FallbackMessage(op))
              /\ UNCHANGED menuPending
         ELSE /\ menu' = p
              /\ menuPending' = menuPending (+) SetToBag({MenuRequest(op, id, FALSE)})
  /\ UNCHANGED <<localStorageToken, mmPageVars>>
  /\ UNCHANGED <<posVars, invVars, repVars, mobileVars, authVars, shellVars,
                 users, usersPending>>

StoreResponsePayloads(req) ==
  IF req.op = "fetchItems" THEN StoreItemListPayloads ELSE ResponsePayloads(req)

MenuStoreNext ==
  \/ \E op \in MenuOps : \E id \in MenuArgs(op) : menuDispatch(op, id)
  \/ \E req \in BagToSet(menuPending) :
       \E payload \in StoreResponsePayloads(req) :
         /\ req.op = "addItem" => Len(menu.items) < MaxListLen
         /\ ThunkFulfilled(req, payload)
  \/ \E req \in BagToSet(menuPending) :
       \E message \in {ServerDetail, FallbackMessage(req.op)} :
         ThunkRejected(req, message)

\* ------------------------------------------------------------------------
\* Auth store (frontend/src/features/auth/authSlice.ts)
\*
\* A request of an auth thunk is held with the thunk (op), the request the
\* thunk waits for (phase: "login" for POST /auth/login, "profile" for
\* GET /users/me), the credentials posted, its Authorization header and the
\* caller whose .then / .catch follows the thunk.
\* ------------------------------------------------------------------------

\* tokens POST /auth/login issues
AuthTokens == {"tokenA", "tokenB"}

\* the users GET /users/me returns
ProfileUsers == { [id |-> "u1", role |-> "admin"] }

\* initialState of the slice, read when the page loads
authInitialState ==
  [user |-> NULL, token |-> localStorageToken, isAuthenticated |-> FALSE,
   loading |-> FALSE, error |-> NULL]

\* authSlice's extraReducers: the state after an action of a thunk.  The
\* localStorage.removeItem of fetchUserProfile.rejected is in the actions.
authSliceReducer(st, op, kind, payload) ==
  CASE op \in {"login", "register"} /\ kind = "pending" ->
         [st EXCEPT !.loading = TRUE, !.error = NULL]
    [] op \in {"login", "register"} /\ kind = "fulfilled" ->
         [st EXCEPT !.loading = FALSE, !.isAuthenticated = TRUE,
                    !.token = Some(payload.access_token),
                    !.user = Some(payload.user)]
    [] op = "login" /\ kind = "rejected" ->
         [st EXCEPT !.loading = FALSE, !.error = Some(payload)]
    [] op = "register" /\ kind = "rejected" ->
         [st EXCEPT !.loading = FALSE, !.error = Some(payload)]
    [] op = "logout" /\ kind = "fulfilled" ->
         [st EXCEPT !.user = NULL, !.token = NULL, !.isAuthenticated = FALSE]
    [] op = "fetchUserProfile" /\ kind = "fulfilled" ->
         [st EXCEPT !.user = Some(payload), !.isAuthenticated = TRUE]
    [] op = "fetchUserProfile" /\ kind = "rejected" ->
         [st EXCEPT !.user = NULL, !.token = NULL, !.isAuthenticated = FALSE]
    [] OTHER -> st

\* History kept with a request of an auth thunk: beforeLogout says that the
\* thunk was dispatched before the last logout and that no auth thunk
\* dispatched after that logout has fulfilled since.  No code reads it.
BeforeLogout(req) == [req EXCEPT !.beforeLogout = TRUE]

NotBeforeLogout(req) == [req EXCEPT !.beforeLogout = FALSE]

\* the requests in flight once the thunk of req has fulfilled
AfterFulfilment(pending, req) ==
  IF req.beforeLogout THEN pending ELSE BagOfAll(NotBeforeLogout, pending)

\* the request of fetchUserProfile, with the token the thunk read
ProfileRequest(token, caller) ==
  [op |-> "fetchUserProfile", phase |-> "profile", credentials |-> NULL,
   token |-> Some(token),
   headers |-> [Authorization |-> BearerHeader(token)], caller |-> caller,
   beforeLogout |-> FALSE]

\* the POST /auth/login of a login: form-encoded, no Authorization header
LoginRequest(credentials, caller) ==
  [op |-> "login", phase |-> "login", credentials |-> Some(credentials),
   token |-> NULL, headers |-> [Authorization |-> NULL], caller |-> caller,
   beforeLogout |-> FALSE]

\* the credentials App and ProtectedRoute log in with on their own
HardCodedCredentials == [username |-> "admin@example.com", password |-> "admin123"]

\* the credentials a visitor types into the login form
FormCredentials == { [username |-> "waiter@example.com", password |-> "waiter123"] }

\* What the thunks read and write: the auth store, the requests in flight,
\* localStorage's token and the router's path; reloaded is set when
\* window.location.href is assigned.
Store ==
  [auth |-> auth, pending |-> authPending, token |-> localStorageToken,
   path |-> path, reloaded |-> FALSE]

\* dispatch(login(credentials)): login.pending, then the POST is sent
login(st, credentials, caller) ==
  [st EXCEPT !.auth = authSliceReducer(@, "login", "pending", NULL),
             !.pending = @ (+) SetToBag({LoginRequest(credentials, caller)})]

\* The .catch that follows a rejected thunk: ProtectedRoute answers a
\* rejected fetchUserProfile with a login of the hard-coded credentials and a
\* rejected login with navigate('/login'); App answers a rejected login with
\* window.location.href = '/login'; the login page only logs the error.
afterRejected(st, req) ==
  CASE req.op = "fetchUserProfile" /\ req.caller = "ProtectedRoute" ->
         login(st, HardCodedCredentials, "ProtectedRoute")
    [] req.op = "login" /\ req.caller = "ProtectedRoute" ->
         [st EXCEPT !.path = "/login"]
    [] req.op = "login" /\ req.caller = "App" ->
         [st EXCEPT !.reloaded = TRUE]
    [] OTHER -> st

\* what follows a fulfilled thunk: the login page's navigate('/')
afterFulfilled(st, req) ==
  IF req.op = "login" /\ req.caller = "LoginPage"
  THEN [st EXCEPT !.path = "/"]
  ELSE st

\* dispatch(fetchUserProfile()): without a token the thunk rejects with
\* 'No token found' before any request, and the rejected case removes the
\* token
fetchUserProfile(st, caller) ==
  IF st.token = NULL \/ st.token = Some("")
  THEN afterRejected(
         [st EXCEPT !.auth = authSliceReducer(@, "fetchUserProfile", "rejected",
                                              "No token found"),
                    !.token = NULL],
         ProfileRequest("", caller))
  ELSE [st EXCEPT !.pending = @ (+) SetToBag({ProfileRequest(st.token[1], caller)})]

\* logout that leaves the token in localStorage
logout_keepsStoredToken(st) ==
  [st EXCEPT !.auth = authSliceReducer(@, "logout", "fulfilled", NULL),
             !.pending = BagOfAll(BeforeLogout, @)]

\* dispatch(logout()): the thunk has no await, so it removes the token and
\* is fulfilled in one step
logout(st) ==
  [st EXCEPT !.token = NULL,
             !.auth = authSliceReducer(@, "logout", "fulfilled", NULL),
             !.pending = BagOfAll(BeforeLogout, @)]

\* POST /auth/login answers with a token: the thunk stores it in localStorage
\* and sends GET /users/me with it
loginTokenReceived(st, req, token) ==
  [st EXCEPT !.token = Some(token),
             !.pending = (@ (-) SetToBag({req}))
                         (+) SetToBag({[req EXCEPT
                               !.phase = "profile", !.token = Some(token),
                               !.headers = [Authorization |-> BearerHeader(token)]]})]

\* a request of login fails: login.rejected, then the caller's .catch
loginRejected(st, req, message) ==
  afterRejected(
    [st EXCEPT !.pending = @ (-) SetToBag({req}),
               !.auth = authSliceReducer(@, "login", "rejected", message)],
    req)

\* GET /users/me of login answers with the user: login.fulfilled
loginFulfilled(st, req, user) ==
  afterFulfilled(
    [st EXCEPT !.pending = AfterFulfilment(@ (-) SetToBag({req}), req),
               !.auth = authSliceReducer(@, "login", "fulfilled",
                          [access_token |-> req.token[1], user |-> user])],
    req)

fetchUserProfileFulfilled(st, req, user) ==
  afterFulfilled(
    [st EXCEPT !.pending = AfterFulfilment(@ (-) SetToBag({req}), req),
               !.auth = authSliceReducer(@, "fetchUserProfile", "fulfilled", user)],
    req)

\* GET /users/me of fetchUserProfile fails: the rejected case clears the
\* session and removes the token from localStorage
fetchUserProfileRejected(st, req, message) ==
  afterRejected(
    [st EXCEPT !.pending = @ (-) SetToBag({req}),
               !.auth = authSliceReducer(@, "fetchUserProfile", "rejected", message),
               !.token = NULL],
    req)

\* ------------------------------------------------------------------------
\* The application shell: App (frontend/src/App.tsx), ProtectedRoute
\* (src/unnamed/part_002) and the login page (src/unnamed/part_003).
\*
\* path is "" while only the store is looked at (no component mounted).
\* appDeps and prDeps hold the dependency values of the render in which the
\* useEffect of App and of ProtectedRoute last ran, null before the first
\* run after a mount.
\* ------------------------------------------------------------------------

Paths == {"/", "/login"}

Truthy(token) == token # NULL /\ token # Some("")

\* App renders its routes unless loading; "/" is a protected route
ProtectedRouteMounted(a, p) == p = "/" /\ ~a.loading

LoginPageMounted(a, p) == p = "/login" /\ ~a.loading

\* [dispatch, isAuthenticated, loading, token, location.pathname]
AppDeps(a, p) == <<a.isAuthenticated, a.loading, a.token, p>>

\* [dispatch, isAuthenticated, loading, token, navigate, location]
ProtectedRouteDeps(a, p) == <<a.isAuthenticated, a.loading, a.token, p>>

AppEffectPending == path # "" /\ appDeps # Some(AppDeps(auth, path))

ProtectedRouteEffectPending ==
  /\ path # ""
  /\ ProtectedRouteMounted(auth, path)
  /\ prDeps # Some(ProtectedRouteDeps(auth, path))

\* no effect waits to run: the handlers of events and responses run then
EffectsIdle == ~AppEffectPending /\ ~ProtectedRouteEffectPending

\* ProtectedRoute with the loading test left out
ProtectedRouteRenders_ignoresLoading(prop) ==
  LET isAuthenticated == IF prop # NULL THEN prop[1] ELSE auth.isAuthenticated
  IN  IF ~isAuthenticated THEN "spinner" ELSE "children"

\* What ProtectedRoute renders; prop is its isAuthenticated prop, null when
\* the caller passes none
ProtectedRouteRenders(prop) ==
  LET isAuthenticated == IF prop # NULL THEN prop[1] ELSE auth.isAuthenticated
  IN  IF auth.loading THEN "spinner"
      ELSE IF ~isAuthenticated THEN "spinner"
      ELSE "children"

\* the prop the callers pass: none (App.tsx), the store's isAuthenticated
\* (AppContent)
ProtectedRouteProps == {NULL, Some(auth.isAuthenticated)}

\* ProtectedRoute's useEffect, run for the render of a and p
protectedRouteEffect(st, a, p) ==
  IF Truthy(a.token) /\ ~a.isAuthenticated /\ ~a.loading
  THEN fetchUserProfile(st, "ProtectedRoute")
  ELSE IF ~Truthy(a.token) /\ ~a.isAuthenticated /\ ~a.loading
       THEN [st EXCEPT !.path = "/login"]
       ELSE st

\* App's useEffect, run for the render of a and p
appEffect(st, a, p) ==
  IF Truthy(a.token) /\ ~a.isAuthenticated /\ ~a.loading
  THEN fetchUserProfile(st, "App")
  ELSE IF /\ ~Truthy(a.token) /\ ~a.isAuthenticated /\ ~a.loading
          /\ p # "/login" /\ p # "/register"
       THEN login(st, HardCodedCredentials, "App")
       ELSE st

\* The state a handler leaves: a reload starts the page again at /login with
\* the store's initial state (the token read from localStorage) and drops
\* the requests in flight; an unmounted ProtectedRoute forgets its effect.
ApplyStore(st) ==
  /\ localStorageToken' = st.token
  /\ IF st.reloaded
     THEN /\ auth' = [authInitialState EXCEPT !.token = st.token]
          /\ authPending' = EmptyBag
          /\ path' = "/login"
          /\ appDeps' = NULL
          /\ prDeps' = NULL
     ELSE /\ auth' = st.auth
          /\ authPending' = st.pending
          /\ path' = st.path
          /\ UNCHANGED appDeps
          /\ prDeps' = IF path # "" /\ ProtectedRouteMounted(st.auth, st.path)
                       THEN prDeps ELSE NULL

\* what the auth thunks and the shell leave alone
notShellVars ==
  <<posVars, invVars, menu, menuPending, mmPageVars, repVars, mobileVars,
    users, usersPending>>

AuthStoreInit ==
  /\ auth = authInitialState
  /\ authPending = EmptyBag
  /\ path = ""
  /\ appDeps = NULL
  /\ prDeps = NULL
  /\ visits = 0

\* the page loaded at a path
ShellInit ==
  /\ auth = authInitialState
  /\ authPending = EmptyBag
  /\ path \in Paths
  /\ appDeps = NULL
  /\ prDeps = NULL
  /\ visits = 0

\* The effects of one commit, ProtectedRoute's before App's: each runs when
\* its dependencies changed since its last run, with the values of the render
\* committed.
CommitEffects ==
  /\ ~EffectsIdle
  /\ LET s1 == IF ProtectedRouteEffectPending
                THEN protectedRouteEffect(Store, auth, path) ELSE Store
         s2 == IF AppEffectPending THEN appEffect(s1, auth, path) ELSE s1
     IN  /\ localStorageToken' = s2.token
         /\ auth' = s2.auth
         /\ authPending' = s2.pending
         /\ path' = s2.path
         /\ appDeps' = Some(AppDeps(auth, path))
         /\ prDeps' = IF ProtectedRouteMounted(s2.auth, s2.path)
                      THEN IF ProtectedRouteMounted(auth, path)
                           THEN Some(ProtectedRouteDeps(auth, path))
                           ELSE NULL
                      ELSE NULL
  /\ UNCHANGED <<visits, dispatched>>
  /\ UNCHANGED notShellVars

\* the visitor follows a link or enters a URL of the application
VisitorNavigates(p) ==
  /\ path # "" /\ EffectsIdle
  /\ p # path
  /\ visits + dispatched < MaxVisits
  /\ visits' = visits + 1
  /\ ApplyStore([Store EXCEPT !.path = p])
  /\ UNCHANGED dispatched
  /\ UNCHANGED notShellVars

\* handleSubmit of the login page: dispatch(login({username: email, password}))
LoginSubmit(credentials) ==
  /\ path # "" /\ EffectsIdle
  /\ LoginPageMounted(auth, path)
  /\ visits + dispatched < MaxVisits
  /\ visits' = visits + 1
  /\ ApplyStore(login(Store, credentials, "LoginPage"))
  /\ UNCHANGED dispatched
  /\ UNCHANGED notShellVars

\* dispatch(fetchUserProfile()) on the store
storeFetchUserProfile ==
  /\ EffectsIdle
  /\ dispatched < MaxDispatches
  /\ dispatched' = dispatched + 1
  /\ ApplyStore(fetchUserProfile(Store, "store"))
  /\ UNCHANGED visits
  /\ UNCHANGED notShellVars

\* dispatch(logout()) on the store
storeLogout ==
  /\ EffectsIdle
  /\ dispatched < MaxDispatches
  /\ dispatched' = dispatched + 1
  /\ ApplyStore(logout(Store))
  /\ UNCHANGED visits
  /\ UNCHANGED notShellVars

\* POST /auth/login of a login answers with a token
LoginPostAccepted(req, token) ==
  /\ EffectsIdle
  /\ BagIn(req, authPending)
  /\ req.op = "login" /\ req.phase = "login"
  /\ ApplyStore(loginTokenReceived(Store, req, token))
  /\ UNCHANGED <<visits, dispatched>>
  /\ UNCHANGED notShellVars

\* POST /auth/login of a login is refused
LoginPostRefused(req, message) ==
  /\ EffectsIdle
  /\ BagIn(req, authPending)
  /\ req.op = "login" /\ req.phase = "login"
  /\ ApplyStore(loginRejected(Store, req, message))
  /\ UNCHANGED <<visits, dispatched>>
  /\ UNCHANGED notShellVars

\* GET /users/me of a login answers with the user
LoginProfileLoaded(req, user) ==
  /\ EffectsIdle
  /\ BagIn(req, authPending)
  /\ req.op = "login" /\ req.phase = "profile"
  /\ ApplyStore(loginFulfilled(Store, req, user))
  /\ UNCHANGED <<visits, dispatched>>
  /\ UNCHANGED notShellVars

\* GET /users/me of a login fails
LoginProfileFailed(req, message) ==
  /\ EffectsIdle
  /\ BagIn(req, authPending)
  /\ req.op = "login" /\ req.phase = "profile"
  /\ ApplyStore(loginRejected(Store, req, message))
  /\ UNCHANGED <<visits, dispatched>>
  /\ UNCHANGED notShellVars

\* GET /users/me of a fetchUserProfile answers with the user
ProfileFulfilled(req, user) ==
  /\ EffectsIdle
  /\ BagIn(req, authPending)
  /\ req.op = "fetchUserProfile"
  /\ ApplyStore(fetchUserProfileFulfilled(Store, req, user))
  /\ UNCHANGED <<visits, dispatched>>
  /\ UNCHANGED notShellVars

\* GET /users/me of a fetchUserProfile fails
ProfileRejected(req, message) ==
  /\ EffectsIdle
  /\ BagIn(req, authPending)
  /\ req.op = "fetchUserProfile"
  /\ ApplyStore(fetchUserProfileRejected(Store, req, message))
  /\ UNCHANGED <<visits, dispatched>>
  /\ UNCHANGED notShellVars

\* the detail of a refused login, or the thunk's own message
LoginFailureDetails ==
  {"Incorrect username or password", "Login failed. Please check your credentials."}

AuthResponses ==
  \/ \E req \in BagToSet(authPending) :
       \E token \in AuthTokens : LoginPostAccepted(req, token)
  \/ \E req \in BagToSet(authPending) :
       \E message \in LoginFailureDetails : LoginPostRefused(req, message)
  \/ \E req \in BagToSet(authPending) :
       \E user \in ProfileUsers : LoginProfileLoaded(req, user)
  \/ \E req \in BagToSet(authPending) :
       \E message \in {ServerDetail, "Login failed. Please check your credentials."} :
         LoginProfileFailed(req, message)
  \/ \E req \in BagToSet(authPending) :
       \E user \in ProfileUsers : ProfileFulfilled(req, user)
  \/ \E req \in BagToSet(authPending) :
       \E message \in {ServerDetail, "Failed to fetch user profile"} :
         ProfileRejected(req, message)

AuthStoreNext ==
  \/ storeFetchUserProfile
  \/ \E req \in BagToSet(authPending) :
       \E user \in ProfileUsers : ProfileFulfilled(req, user)
  \/ \E req \in BagToSet(authPending) :
       \E message \in {ServerDetail, "Failed to fetch user profile"} :
         ProfileRejected(req, message)
  \/ storeLogout

ShellNext ==
  \/ CommitEffects
  \/ \E p \in Paths : VisitorNavigates(p)
  \/ \E credentials \in FormCredentials : LoginSubmit(credentials)
  \/ visits + dispatched < MaxVisits /\ storeLogout
  \/ AuthResponses

\* ------------------------------------------------------------------------
\* Auth slice with the logout endpoint (src/unnamed/part_007, second half):
\* login is one POST that returns the token and the user, and logout posts
\* to /api/v1/auth/logout.  The register thunk is left out.  The state is
\* held in auth, the requests in flight in authPending.
\* ------------------------------------------------------------------------

\* what the thunks of this slice leave alone
notSessionVars ==
  <<posVars, invVars, menu, menuPending, mmPageVars, repVars, mobileVars,
    users, usersPending, shellVars>>

\* initialState: the token is read from localStorage when the page loads
sessionInitialState ==
  [user |-> NULL, token |-> localStorageToken, isAuthenticated |-> FALSE,
   loading |-> FALSE, error |-> NULL]

\* extraReducers.  logout.pending has no case.  The
\* localStorage.removeItem of fetchUserProfile.rejected is in the actions.
sessionReducer(st, type, payload) ==
  CASE type \in {"login/pending", "fetchUserProfile/pending"} ->
         [st EXCEPT !.loading = TRUE, !.error = NULL]
    [] type = "login/fulfilled" ->
         [st EXCEPT !.loading = FALSE, !.isAuthenticated = TRUE,
                    !.token = Some(payload.access_token),
                    !.user = Some(payload.user), !.error = NULL]
    [] type = "login/rejected" ->
         [st EXCEPT !.loading = FALSE, !.error = Some(payload),
                    !.isAuthenticated = FALSE, !.user = NULL, !.token = NULL]
    [] type = "logout/fulfilled" ->
         [st EXCEPT !.loading = FALSE, !.isAuthenticated = FALSE,
                    !.user = NULL, !.token = NULL, !.error = NULL]
    [] type = "logout/rejected" ->
         [st EXCEPT !.loading = FALSE, !.error = Some(payload)]
    [] type = "fetchUserProfile/fulfilled" ->
         [st EXCEPT !.loading = FALSE, !.user = Some(payload),
                    !.isAuthenticated = TRUE, !.error = NULL]
    [] type = "fetchUserProfile/rejected" ->
         [st EXCEPT !.loading = FALSE, !.user = NULL, !.token = NULL,
                    !.isAuthenticated = FALSE, !.error = Some(payload)]
    [] OTHER -> st

\* `${value}` in a template literal: null is written as the text "null"
TemplateText(value) == IF value = NULL THEN "null" ELSE value[1]

\* a request of a thunk of this slice, as axios sends it
SessionRequest(op, credentials, headers) ==
  [op |-> op, credentials |-> credentials, headers |-> headers]

\* dispatch(login(credentials)): login.pending, then the POST to
\* /api/v1/auth/login
sessionLogin(credentials) ==
  /\ dispatched < MaxDispatches
  /\ dispatched' = dispatched + 1
  /\ auth' = sessionReducer(auth, "login/pending", NULL)
  /\ authPending' = authPending (+) SetToBag({
       SessionRequest("login", credentials,
         [ContentType |-> "application/x-www-form-urlencoded"])})
  /\ UNCHANGED <<localStorageToken, notSessionVars>>

\* what login rejects with: a response without token or user, the detail of
\* an error response, no response at all
SessionLoginMessages ==
  {"Invalid response from server", "Incorrect username or password",
   "No response from server. Please check your connection."}

\* the POST of a login returns: with token and user the token is stored and
\* login.fulfilled follows, otherwise login.rejected
SessionLoginAnswered(req) ==
  /\ BagIn(req, authPending)
  /\ req.op = "login"
  /\ authPending' = authPending (-) SetToBag({req})
  /\ \/ \E access_token \in AuthTokens, user \in ProfileUsers :
          /\ localStorageToken' = Some(access_token)
          /\ auth' = sessionReducer(auth, "login/fulfilled",
                       [access_token |-> access_token, user |-> user])
     \/ \E message \in SessionLoginMessages :
          /\ auth' = sessionReducer(auth, "login/rejected", message)
          /\ UNCHANGED localStorageToken
  /\ UNCHANGED <<dispatched, notSessionVars>>

\* dispatch(logout()): the token is removed from localStorage, and then the
\* POST to /api/v1/auth/logout is built, its Authorization header from what
\* localStorage.getItem('token') returns at that point
sessionLogout ==
  /\ dispatched < MaxDispatches
  /\ dispatched' = dispatched + 1
  /\ LET removed == NULL
         stored  == removed
     IN  /\ localStorageToken' = removed
         /\ authPending' = authPending (+) SetToBag({
              SessionRequest("logout", NULL,
                [Authorization |-> BearerHeader(TemplateText(stored))])})
  /\ UNCHANGED <<auth, notSessionVars>>

\* the POST of a logout returns or fails: a failure is only logged, and
\* logout.fulfilled follows in both cases
SessionLogoutAnswered(req) ==
  /\ BagIn(req, authPending)
  /\ req.op = "logout"
  /\ authPending' = authPending (-) SetToBag({req})
  /\ \E failed \in BOOLEAN :
       auth' = sessionReducer(auth, "logout/fulfilled", NULL)
  /\ UNCHANGED <<localStorageToken, dispatched, notSessionVars>>

\* dispatch(fetchUserProfile()): without a token in localStorage it rejects
\* at once, otherwise GET /api/v1/users/me is sent with the token
sessionFetchUserProfile ==
  /\ dispatched < MaxDispatches
  /\ dispatched' = dispatched + 1
  /\ LET started == sessionReducer(auth, "fetchUserProfile/pending", NULL)
     IN  IF localStorageToken = NULL
         THEN /\ auth' = sessionReducer(started, "fetchUserProfile/rejected",
                           "No authentication token found")
              /\ localStorageToken' = NULL
              /\ UNCHANGED authPending
         ELSE /\ auth' = started
              /\ authPending' = authPending (+) SetToBag({
                   SessionRequest("fetchUserProfile", NULL,
                     [Authorization |-> BearerHeader(localStorageToken[1])])})
              /\ UNCHANGED localStorageToken
  /\ UNCHANGED notSessionVars

\* the GET of fetchUserProfile returns the user, or fails: the reducer of
\* fetchUserProfile.rejected removes the token from localStorage
SessionProfileAnswered(req) ==
  /\ BagIn(req, authPending)
  /\ req.op = "fetchUserProfile"
  /\ authPending' = authPending (-) SetToBag({req})
  /\ \/ \E user \in ProfileUsers :
          /\ auth' = sessionReducer(auth, "fetchUserProfile/fulfilled", user)
          /\ UNCHANGED localStorageToken
     \/ \E message \in {ServerDetail, "Failed to fetch user profile"} :
          /\ auth' = sessionReducer(auth, "fetchUserProfile/rejected", message)
          /\ localStorageToken' = NULL
  /\ UNCHANGED <<dispatched, notSessionVars>>

SessionNext ==
  \/ \E credentials \in FormCredentials : sessionLogin(credentials)
  \/ sessionLogout
  \/ sessionFetchUserProfile
  \/ \E req \in BagToSet(authPending) : SessionLoginAnswered(req)
  \/ \E req \in BagToSet(authPending) : SessionLogoutAnswered(req)
  \/ \E req \in BagToSet(authPending) : SessionProfileAnswered(req)

\* ------------------------------------------------------------------------
\* Specifications
\* ------------------------------------------------------------------------

MobileInit == MobileAuthInit /\ MobileOrderInit

\* the users and auth stores of a page just loaded
StoresInit == UsersStoreInit /\ AuthStoreInit

Init == PosInit /\ InvInit /\ MenuInit /\ RepInit /\ MobileInit /\ StoresInit

Next == PosNext

Spec == Init /\ [][Next]_vars

InitInventory ==
  PosInit /\ InvInitAnyList /\ MenuInit /\ RepInit /\ MobileInit /\ StoresInit

NextInventory == InvNext

SpecInventory == InitInventory /\ [][NextInventory]_vars

InitMenu ==
  PosInit /\ InvInit /\ MenuInitAnyToken /\ RepInit /\ MobileInit /\ StoresInit

NextMenu == MenuNext

SpecMenu == InitMenu /\ [][NextMenu]_vars

NextReports == RepNext

SpecReports == Init /\ [][NextReports]_vars

NextMobileAuth == MobileAuthNext

SpecMobileAuth == Init /\ [][NextMobileAuth]_vars

NextMobileOrder == MobileOrderNext

SpecMobileOrder == Init /\ [][NextMobileOrder]_vars

\* the store with any token, or none, left in localStorage by an earlier visit
MenuInitStoredToken ==
  /\ localStorageToken \in {NULL} \cup {Some(t) : t \in AuthTokens}
  /\ menu = menuInitialState
  /\ menuPending = EmptyBag
  /\ MenuPageInitial

InitStore ==
  PosInit /\ InvInit /\ MenuInitStoredToken /\ RepInit /\ MobileInit /\ StoresInit

NextStore == UsersStoreNext \/ MenuStoreNext \/ AuthStoreNext

SpecStore == InitStore /\ [][NextStore]_vars

\* the application loaded at a path, with or without a stored token
InitAuth ==
  /\ PosInit /\ InvInit /\ MenuInitAnyToken /\ RepInit /\ MobileInit
  /\ UsersStoreInit /\ ShellInit

NextAuth == ShellNext

SpecAuth == InitAuth /\ [][NextAuth]_vars

\* the store of src/unnamed/part_007 just created, with or without a token
\* left in localStorage by an earlier visit
InitSession ==
  /\ PosInit /\ InvInit /\ MenuInitStoredToken /\ RepInit /\ MobileInit
  /\ UsersStoreInit
  /\ auth = sessionInitialState
  /\ authPending = EmptyBag
  /\ path = ""
  /\ appDeps = NULL
  /\ prDeps = NULL
  /\ visits = 0

NextSession == SessionNext

SpecSession == InitSession /\ [][NextSession]_vars

\* ------------------------------------------------------------------------
\* Properties of the POS page
\* ------------------------------------------------------------------------

\* sum of unit_price * quantity over the lines at the positions in idx
RECURSIVE LinesTotal(_, _)
LinesTotal(items, idx) ==
  IF idx = {} THEN 0
  ELSE LET i == CHOOSE j \in idx : TRUE
       IN  items[i].unit_price * items[i].quantity + LinesTotal(items, idx \ {i})

\* C1: in every state the POS reaches by adding and removing items, the
\* subtotal calculateTotals returns is the sum of unit_price * quantity over
\* the items now in the order (0 for the empty order).
C1_SubtotalIsSumOfLines ==
  /\ calculateTotals.subtotal = 100 * LinesTotal(orderItems, DOMAIN orderItems)
  /\ orderItems = <<>> => calculateTotals.subtotal = 0

\* C1 witness: an order of two lines, quantity 1 and quantity 2 of the same
\* unit price p, whose subtotal is 3 * p.
C1_Witness ==
  /\ Len(orderItems) = 2
  /\ orderItems[1].quantity = 1
  /\ orderItems[2].quantity = 2
  /\ orderItems[1].unit_price = orderItems[2].unit_price
  /\ calculateTotals.subtotal = 100 * 3 * orderItems[1].unit_price

\* C3 (as claimed): handlePayment with the Amount Received equal to the order
\* total leaves the order with payment_status paid, and with a smaller
\* positive amount leaves it with payment_status partial.
C3_PaymentSetsStatus ==
  [][(handlePayment /\ amountReceived # NULL) =>
       LET amount == amountReceived[1]
           total  == calculateTotals.total
       IN  /\ amount = total =>
                /\ currentOrder' # NULL
                /\ currentOrder'[1].payment_status = "paid"
           /\ (0 < amount /\ amount < total) =>
                /\ currentOrder' # NULL
                /\ currentOrder'[1].payment_status = "partial"]_vars

C10_QuantityPositive ==
  \A i \in DOMAIN orderItems : orderItems[i].quantity > 0

\* C19 (as claimed): pressing Add on a menu card appends to the order exactly
\* one item, for the menu item of that card, whatever the Add Item form held
\* before; the items already in the order stay.
C19_CardAddAppendsThatItem ==
  [][\A id \in MenuChoices :
       MenuCardAdd(id) =>
         /\ Len(orderItems') = Len(orderItems) + 1
         /\ SubSeq(orderItems', 1, Len(orderItems)) = orderItems
         /\ orderItems'[Len(orderItems')].menu_item_id = id]_vars

\* C22: for every list of order items the tax is exactly 15% of the subtotal
\* and the total is subtotal + tax, so 100 * total = 115 * subtotal; with an
\* empty order all three are 0.
C22_TaxIsFifteenPercent ==
  LET t == calculateTotals
  IN  /\ 100 * t.tax = 15 * t.subtotal
      /\ t.total = t.subtotal + t.tax
      /\ 100 * t.total = 115 * t.subtotal
      /\ orderItems = <<>> => t.subtotal = 0 /\ t.tax = 0 /\ t.total = 0

\* C22 witness: an order of two lines whose tax is not 0.
C22_Witness ==
  /\ Len(orderItems) = 2
  /\ calculateTotals.tax > 0
  /\ calculateTotals.total > calculateTotals.subtotal

\* ------------------------------------------------------------------------
\* Properties of the Inventory page
\* ------------------------------------------------------------------------

\* the items listed in a sequence of table rows
RowsOf(rows) == {rows[i] : i \in DOMAIN rows}

\* C4: the Low Stock tab lists an item exactly when current_stock <=
\* min_stock (equal counts as low), and its rows are exactly the items whose
\* status in the Inventory Items tab is "Low Stock!".
C4_LowStockIffAtOrBelowMin ==
  \A i \in DOMAIN inventoryItems :
    LET item == inventoryItems[i]
    IN  /\ (item \in RowsOf(LowStockRows)) <=> (item.current_stock <= item.min_stock)
        /\ (item \in RowsOf(LowStockRows)) <=> (RowStatus(item) = "Low Stock!")
        /\ item.current_stock > item.min_stock => item \notin RowsOf(LowStockRows)

\* C4 witness: the Low Stock tab is open and lists an item whose stock equals
\* its minimum, next to an item above its minimum that it does not list.
C4_Witness ==
  /\ invActiveTab = 3
  /\ \E i \in DOMAIN inventoryItems :
       /\ inventoryItems[i].current_stock = inventoryItems[i].min_stock
       /\ inventoryItems[i] \in RowsOf(LowStockRows)
  /\ \E i \in DOMAIN inventoryItems :
       /\ inventoryItems[i].current_stock > inventoryItems[i].min_stock
       /\ inventoryItems[i] \notin RowsOf(LowStockRows)

\* ------------------------------------------------------------------------
\* Properties of the menu store and the Menu Management page
\* ------------------------------------------------------------------------

\* C5 (as claimed): for every item of the menu store the Profit Margin shown
\* is the item's price - cost.  The cell's text is in hundredths of a Birr,
\* prices and costs in eighths.
C5_MarginIsPriceMinusCost ==
  \A i \in DOMAIN menu.items :
    LET item == menu.items[i]
    IN  8 * DecimalTextValue(MarginShown(item)) = 100 * (item.price - item.cost)

\* C5 (amended): the Profit Margin shown is price - cost rounded to two
\* decimals: it is price - cost itself when that has at most two decimals
\* (price 250, cost 100 show "150.00") and is otherwise within 0.005 of it.
C5_MarginIsPriceMinusCostRounded ==
  \A i \in DOMAIN menu.items :
    LET item     == menu.items[i]
        shown    == 8 * DecimalTextValue(MarginShown(item))
        exact    == 100 * (item.price - item.cost)
    IN  /\ AbsInt(shown - exact) <= 4
        /\ exact % 8 = 0 => shown = exact
        /\ (item.price = 2000 /\ item.cost = 800) =>
             MarginShown(item) = <<"1", "5", "0", ".", "0", "0">>

\* C5 witness: the Menu Items tab shows a stored item of price 250 and cost
\* 100 with margin "150.00" while no request is pending, so the item came
\* from a fulfilled fetch, add or update.
C5_Witness ==
  /\ mmMounted /\ mmActiveTab = 0
  /\ menuPending = EmptyBag
  /\ \E i \in DOMAIN menu.items :
       /\ menu.items[i].price = 2000
       /\ menu.items[i].cost = 800
       /\ MarginShown(menu.items[i]) = <<"1", "5", "0", ".", "0", "0">>

\* quantity * unit_cost summed over the ingredients of a recipe
RECURSIVE RecipeCost(_)
RecipeCost(ingredients) ==
  IF ingredients = <<>> THEN 0
  ELSE Head(ingredients).quantity * Head(ingredients).unit_cost
       + RecipeCost(Tail(ingredients))

\* C6 (as claimed): the COGS of every menu item is the sum of quantity *
\* unit_cost over the ingredients of its recipe, and its profit is the price
\* minus that COGS.
C6_CogsIsRecipeCost ==
  \A i \in DOMAIN menu.items :
    LET item == menu.items[i]
        cogs == RecipeCost(RecipeIngredients(item))
    IN  /\ CogsShown(item) = cogs
        /\ item.price - CogsShown(item) = item.price - cogs

\* ------------------------------------------------------------------------
\* Properties of the Reports page
\* ------------------------------------------------------------------------

\* C7: in every row of the Inventory Variance table the variance is the
\* actual count minus the theoretical quantity, with its sign.
C7_VarianceIsActualMinusTheoretical ==
  repActiveTab = 3 =>
    \A i \in DOMAIN varianceRows :
      DecimalTextValue(varianceRows[i].variance)
        = DecimalTextValue(varianceRows[i].actual)
          - DecimalTextValue(varianceRows[i].theoretical)

\* C7 witness: the Inventory Variance tab is shown and has a row of negative
\* variance and a row of positive variance.
C7_Witness ==
  /\ repActiveTab = 3
  /\ \E i \in DOMAIN varianceRows : DecimalTextValue(varianceRows[i].variance) < 0
  /\ \E i \in DOMAIN varianceRows : DecimalTextValue(varianceRows[i].variance) > 0

\* ------------------------------------------------------------------------
\* Properties of the waiter app
\* ------------------------------------------------------------------------

\* C17 (as claimed): in every state of the waiter app's auth context,
\* isAuthenticated is true exactly when a token is held.
C17_AuthenticatedIffToken ==
  mAuth.isAuthenticated <=> (mAuth.token # NULL)

\* number of lines of the order with the id
LinesOf(items, id) == Cardinality({i \in DOMAIN items : items[i].id = id})

\* the lines of the order with another id, in their order
OtherLines(items, id) ==
  LET Other(item) == item.id # id
  IN  SelectSeq(items, Other)

\* C18: the waiter app's order holds at most one line per menu item id and
\* every line has quantity >= 1; addToOrder on an item of the order raises
\* that line's quantity by exactly 1 (and on a new item adds one line of
\* quantity 1), removeFromOrder lowers the quantity by 1 or deletes the line
\* when the quantity is 1; the other lines are unchanged.
C18_OneLinePerItemQuantityPositive ==
  [][/\ \A i \in DOMAIN mOrderItems' :
          /\ mOrderItems'[i].quantity >= 1
          /\ LinesOf(mOrderItems', mOrderItems'[i].id) = 1
     /\ \A i \in DOMAIN mobileMenuItems :
          LET item == mobileMenuItems[i]
              row  == WithQuantity(item, LineQuantity(mOrderItems, item.id))
          IN  /\ (addToOrder(item) \/ addToOrder(row)) =>
                   /\ LineQuantity(mOrderItems', item.id)
                        = LineQuantity(mOrderItems, item.id) + 1
                   /\ OtherLines(mOrderItems', item.id)
                        = OtherLines(mOrderItems, item.id)
              /\ (removeFromOrder(item.id) /\ LinesOf(mOrderItems, item.id) = 1) =>
                   /\ LineQuantity(mOrderItems', item.id)
                        = LineQuantity(mOrderItems, item.id) - 1
                   /\ LinesOf(mOrderItems', item.id)
                        = (IF LineQuantity(mOrderItems, item.id) = 1 THEN 0 ELSE 1)
                   /\ OtherLines(mOrderItems', item.id)
                        = OtherLines(mOrderItems, item.id)]_vars

\* C18 witness: an order of two lines where the first one was added twice.
C18_Witness ==
  /\ Len(mOrderItems) = 2
  /\ mOrderItems[1].quantity = 2
  /\ mOrderItems[2].quantity = 1
  /\ mOrderItems[1].id # mOrderItems[2].id

\* ------------------------------------------------------------------------
\* Properties of the users, menu and auth stores
\* ------------------------------------------------------------------------

\* the entries of a list that do not have the id, in their order
RECURSIVE Without(_, _)
Without(list, id) ==
  IF list = <<>> THEN <<>>
  ELSE IF Head(list).id = id THEN Without(Tail(list), id)
       ELSE <<Head(list)>> \o Without(Tail(list), id)

\* new is old with the payload in the place of the entry with its id (the
\* first one, should the list hold the id twice) and nothing else changed
ReplacedIn(old, new, payload) ==
  LET hits == {i \in DOMAIN old : old[i].id = payload.id}
  IN  /\ Len(new) = Len(old)
      /\ \A i \in DOMAIN old :
           new[i] = IF i \in hits /\ \A j \in hits : i <= j
                    THEN payload ELSE old[i]

\* what a fulfilled write of the operation kind does to a list
WriteApplied(kind, old, new, payload) ==
  CASE kind = "add"    -> new = old \o <<payload>>
    [] kind = "update" -> ReplacedIn(old, new, payload)
    [] kind = "delete" -> new = Without(old, payload)
    [] OTHER           -> TRUE

WriteKind(op) ==
  CASE op \in {"addUser", "addItem"}       -> "add"
    [] op \in {"updateUser", "updateItem"} -> "update"
    [] op \in {"deleteUser", "deleteItem"} -> "delete"
    [] OTHER                               -> "fetch"

\* C20: after a fulfilled write the store's list reflects it: add appends
\* the returned entity at the end, update replaces the entry with the
\* returned entity's id and delete removes the entry with the id, and all
\* other entries are unchanged, in the users store and in the menu store.
C20_FulfilledWriteReflected ==
  [][/\ \A req \in BagToSet(usersPending) :
          \A payload \in UsersResponsePayloads(req) :
            UsersThunkFulfilled(req, payload) =>
              WriteApplied(WriteKind(req.op), users.users, users'.users, payload)
     /\ \A req \in BagToSet(menuPending) :
          \A payload \in StoreResponsePayloads(req) :
            ThunkFulfilled(req, payload) =>
              WriteApplied(WriteKind(req.op), menu.items, menu'.items, payload)]_vars

\* C20 witness: a user was added to a list that held a user of the same id
\* (a fetched list holds no id twice), and the earlier entry is still there.
C20_Witness ==
  /\ Len(users.users) = 2
  /\ users.users[1].id = users.users[2].id
  /\ usersPending = EmptyBag

UsersWriteOps == {"addUser", "updateUser", "deleteUser"}

MenuWriteOps == {"addItem", "updateItem", "deleteItem"}

\* a users write thunk of the operation fails in this step: it finds no
\* token when it runs, or its request is answered with an error
UsersWriteFails(op) ==
  \/ NoToken /\ \E id \in UsersArgs(op) : usersDispatch(op, id)
  \/ \E req \in BagToSet(usersPending) :
       /\ req.op = op
       /\ \E message \in {ServerDetail, UsersFallbackMessage(op)} :
            UsersThunkRejected(req, message)

MenuWriteFails(op) ==
  \/ NoToken /\ \E id \in MenuArgs(op) : menuDispatch(op, id)
  \/ \E req \in BagToSet(menuPending) :
       /\ req.op = op
       /\ \E message \in {ServerDetail, FallbackMessage(op)} :
            ThunkRejected(req, message)

\* number of requests awaiting a response that the step ends
RequestsEnded(pending, pendingAfter) ==
  BagCardinality(pending) - BagCardinality(pendingAfter)

\* C12 as stated: when a write thunk fails, exactly one HTTP request was
\* attempted for it, error is the failure message and the list is unchanged.
C12_FailedWriteOneRequest ==
  [][/\ \A op \in UsersWriteOps :
          UsersWriteFails(op) =>
            /\ usersPending' \sqsubseteq usersPending
            /\ RequestsEnded(usersPending, usersPending') = 1
            /\ users'.error \in {Some(ServerDetail), Some(UsersFallbackMessage(op))}
            /\ users'.users = users.users
     /\ \A op \in MenuWriteOps :
          MenuWriteFails(op) =>
            /\ menuPending' \sqsubseteq menuPending
            /\ RequestsEnded(menuPending, menuPending') = 1
            /\ menu'.error \in {Some(ServerDetail), Some(FallbackMessage(op))}
            /\ menu'.items = menu.items]_vars

\* C12: when a write thunk fails, at most one HTTP request was attempted for
\* it and none is sent again: one request ends when the server answered
\* with an error, none was sent when the thunk found no token in
\* localStorage; error is the failure message and the list is unchanged.
C12_FailedWriteAtMostOneRequest ==
  [][/\ \A op \in UsersWriteOps :
          UsersWriteFails(op) =>
            /\ usersPending' \sqsubseteq usersPending
            /\ RequestsEnded(usersPending, usersPending') \in {0, 1}
            /\ RequestsEnded(usersPending, usersPending') = 0 => NoToken
            /\ users'.error \in {Some(ServerDetail), Some(UsersFallbackMessage(op))}
            /\ users'.users = users.users
     /\ \A op \in MenuWriteOps :
          MenuWriteFails(op) =>
            /\ menuPending' \sqsubseteq menuPending
            /\ RequestsEnded(menuPending, menuPending') \in {0, 1}
            /\ RequestsEnded(menuPending, menuPending') = 0 => NoToken
            /\ menu'.error \in {Some(ServerDetail), Some(FallbackMessage(op))}
            /\ menu'.items = menu.items]_vars

\* C12 witness: with a token stored, adding a user to a fetched list failed.
C12_Witness ==
  /\ ~NoToken
  /\ users.users # <<>>
  /\ users.error = Some(UsersFallbackMessage("addUser"))
  /\ usersPending = EmptyBag

\* the requests a step sends: those the bag holds more often after it
NewRequests(pending, pendingAfter) ==
  {r \in BagToSet(pendingAfter) : CopiesIn(r, pendingAfter) > CopiesIn(r, pending)}

\* C11: every request of a users thunk, a menu thunk or fetchUserProfile
\* carries Authorization: Bearer <token>, the token being the one
\* localStorage holds when the thunk runs; a thunk that finds no token sends
\* no request and ends rejected.  The requests of the auth store are
\* compared without their history field, which logout rewrites.
C11_RequestsCarryBearerToken ==
  [][/\ \A r \in NewRequests(usersPending, usersPending') :
          /\ ~NoToken
          /\ r.headers.Authorization = <<"Bearer ", localStorageToken[1]>>
     /\ \A r \in NewRequests(menuPending, menuPending') :
          /\ ~NoToken
          /\ r.headers.Authorization = <<"Bearer ", localStorageToken[1]>>
     /\ \A r \in NewRequests(BagOfAll(NotBeforeLogout, authPending),
                             BagOfAll(NotBeforeLogout, authPending')) :
          /\ ~NoToken
          /\ r.headers.Authorization = <<"Bearer ", localStorageToken[1]>>
     /\ NoToken =>
          /\ \A op \in UsersOps : \A id \in UsersArgs(op) :
               usersDispatch(op, id) =>
                 /\ usersPending' = usersPending
                 /\ users'.error = Some(UsersFallbackMessage(op))
          /\ \A op \in MenuOps : \A id \in MenuArgs(op) :
               menuDispatch(op, id) =>
                 /\ menuPending' = menuPending
                 /\ menu'.error = Some(FallbackMessage(op))
          /\ storeFetchUserProfile =>
               /\ authPending' = authPending
               /\ ~auth'.isAuthenticated
               /\ auth'.token = NULL]_vars

\* C11 witness: a request awaits its response with the token its thunk read,
\* after a logout has removed that token from localStorage.
C11_Witness ==
  /\ localStorageToken = NULL
  /\ \E r \in BagToSet(usersPending) :
       r.headers.Authorization = <<"Bearer ", "tokenB">>

\* ------------------------------------------------------------------------
\* Properties of the auth store and the application shell
\* ------------------------------------------------------------------------

\* the messages a request of login may fail with
LoginRejectionMessages ==
  LoginFailureDetails \cup {ServerDetail}

\* C13: whenever the login thunk ends rejected (the login request is refused,
\* or the profile request that follows fails), the attempt does not set
\* isAuthenticated to true and localStorage holds no token the attempt
\* obtained.
C13_RejectedLoginLeavesNoCredential ==
  [][\A req \in BagToSet(authPending) :
       \A message \in LoginRejectionMessages :
         (LoginPostRefused(req, message) \/ LoginProfileFailed(req, message)) =>
           /\ auth'.isAuthenticated => auth.isAuthenticated
           /\ req.token # NULL => localStorageToken' # req.token]_vars

\* C14: after logout fulfils with no other auth thunk in flight, the auth
\* store has user = null, token = null and isAuthenticated = false, and
\* localStorage holds no token.
C14_LogoutClearsSession ==
  [][(storeLogout /\ authPending = EmptyBag) =>
       /\ auth'.user = NULL
       /\ auth'.token = NULL
       /\ ~auth'.isAuthenticated
       /\ localStorageToken' = NULL]_vars

\* C14 witness: a logout was dispatched in a session of token tokenA shown at
\* "/" (the render App's effect last ran for), and the session is gone.
C14_Witness ==
  /\ dispatched = 1
  /\ appDeps = Some(<<TRUE, FALSE, Some("tokenA"), "/">>)
  /\ authPending = EmptyBag
  /\ auth.user = NULL /\ auth.token = NULL /\ ~auth.isAuthenticated
  /\ localStorageToken = NULL

\* C15: ProtectedRoute renders its children only in states where
\* isAuthenticated is true and loading is false, and only the progress
\* spinner in every other state, with the prop of either caller.
C15_ChildrenOnlyWhenAuthenticated ==
  \A prop \in ProtectedRouteProps :
    ProtectedRouteRenders(prop) =
      IF auth.isAuthenticated /\ ~auth.loading THEN "children" ELSE "spinner"

\* C15 witness: the protected page is shown at "/" to a visitor who came
\* from another path and whose profile is loaded.
C15_Witness ==
  /\ path = "/"
  /\ visits > 0
  /\ auth.user # NULL
  /\ \A prop \in ProtectedRouteProps : ProtectedRouteRenders(prop) = "children"

\* C16: a login request is dispatched only with credentials submitted
\* through the login form, never by the application on its own.
C16_LoginOnlyFromForm ==
  \A req \in BagToSet(authPending) :
    req.op = "login" =>
      /\ req.caller = "LoginPage"
      /\ req.credentials[1] \in FormCredentials

\* a request of the thunk of req is answered in this step
AuthRequestAnswered(req) ==
  \/ \E token \in AuthTokens : LoginPostAccepted(req, token)
  \/ \E message \in LoginRejectionMessages :
       LoginPostRefused(req, message) \/ LoginProfileFailed(req, message)
  \/ \E user \in ProfileUsers :
       LoginProfileLoaded(req, user) \/ ProfileFulfilled(req, user)
  \/ \E message \in {ServerDetail, "Failed to fetch user profile"} :
       ProfileRejected(req, message)

\* C24: after logout fulfils, the session stays logged out until an auth
\* thunk dispatched after that logout fulfils: a response to a login or
\* fetchUserProfile call dispatched before the logout leaves isAuthenticated
\* false and no token in the store or in localStorage.
C24_StaysLoggedOut ==
  [][\A req \in BagToSet(authPending) :
       (req.beforeLogout /\ AuthRequestAnswered(req)) =>
         /\ ~auth'.isAuthenticated
         /\ auth'.token = NULL
         /\ localStorageToken' = NULL]_vars

\* C23: in every reachable state of the web auth slice, isAuthenticated =
\* true implies that the store's token is not null.
C23_AuthenticatedImpliesToken ==
  auth.isAuthenticated => auth.token # NULL

\* ------------------------------------------------------------------------
\* Properties of the auth slice with the logout endpoint
\* ------------------------------------------------------------------------

\* the requests a step sends
NewSessionRequests == BagToSet(authPending' (-) authPending)

\* C21: the request the logout thunk sends to /api/v1/auth/logout carries in
\* its Authorization header the bearer token of the session being ended,
\* the token that was in localStorage when logout was dispatched.
C21_LogoutCarriesSessionToken ==
  [][\A req \in NewSessionRequests :
       (req.op = "logout" /\ localStorageToken # NULL) =>
         req.headers.Authorization = BearerHeader(localStorageToken[1])]_vars

====
